---- MODULE Spec2Model ----
(***************************************************************************)
(* Model of the release engine of zensical/mono: the conventional-commit   *)
(* change parser, the scope set, the changeset and its changelog, the      *)
(* dependents graph with increment propagation, the semver bump rules, the *)
(* rewrite of the manifests of a workspace, the commit ranges between      *)
(* version tags, the version-create command and the discovery of the       *)
(* members of a workspace.                                                 *)
(*                                                                         *)
(* Strings are sequences of one-character strings, so that splitting,      *)
(* trimming and indexing are computed the way the Rust code computes them. *)
(* Indices named "end", "start", "after" are 0-based as in the source.     *)
(***************************************************************************)
EXTENDS Integers, Sequences, FiniteSets, TLC

VARIABLES
    \* change parser: Change::from_str, Display for Change
    value, change, shown, reparsed, stage,
    \* scope set: Builder { paths, globs }, Scopes, the last Scopes::get
    paths, globs, built, lookup, outcome,
    \* changeset: Changeset { scopes, revisions, increments }, and the log of
    \* the add calls made so far with what each returned
    scopes, revisions, increments, calls,
    \* version bump: the version, and the bump that produced it
    version, last,
    \* dependents: the graph's edges (dependency, dependent), the increment
    \* vector handed to Dependents::bump, its value on entry, the nodes
    \* visited so far with what was offered and chosen, and how bump ended
    edges, current, entry, visits, phase,
    \* workspace bump: the manifests of the projects on disk (as read when
    \* the workspace was created, and as they are now), the increments
    \* handed to Workspace::bump, the version set computed from them, the
    \* number of projects the loop is done with, the number of sync calls,
    \* and what bump returned
    manifests, requested, versions, position, syncs, returned,
    \* repository: the parents of each commit, HEAD, the version tags, the
    \* argument of the last Versions::commits call and what it yielded
    parents, tip, tags, asked, yielded,
    \* version create: the projects of the workspace, what the repository
    \* and the user answer, the statement Arguments::execute is at, the
    \* mutations of the repository and of the files made so far, and what
    \* execute returned
    members, environment, step, effects, exit,
    \* members: the member patterns of the manifests on disk, the stack of
    \* path iterators of Members, the projects it has yielded, and whether
    \* it has returned None
    disk, pending, found, finished

changeVars == <<value, change, shown, reparsed, stage>>

scopeVars == <<paths, globs, built, lookup, outcome>>

changesetVars == <<scopes, revisions, increments, calls>>

versionVars == <<version, last>>

dependentsVars == <<edges, current, entry, visits, phase>>

workspaceVars == <<manifests, requested, versions, position, syncs, returned>>

repositoryVars == <<parents, tip, tags, asked, yielded>>

createVars == <<members, environment, step, effects, exit>>

membersVars == <<disk, pending, found, finished>>

vars ==
    <<changeVars, scopeVars, changesetVars, versionVars, dependentsVars,
      workspaceVars, repositoryVars, createVars, membersVars>>

\* The variables an action of one component leaves alone
exceptChange ==
    <<scopeVars, changesetVars, versionVars, dependentsVars,
      workspaceVars, repositoryVars,
      createVars, membersVars>>

exceptScopes ==
    <<changeVars, changesetVars, versionVars, dependentsVars,
      workspaceVars, repositoryVars,
      createVars, membersVars>>

exceptChangeset ==
    <<changeVars, scopeVars, versionVars, dependentsVars,
      workspaceVars, repositoryVars,
      createVars, membersVars>>

exceptVersion ==
    <<changeVars, scopeVars, changesetVars, dependentsVars,
      workspaceVars, repositoryVars,
      createVars, membersVars>>

exceptDependents ==
    <<changeVars, scopeVars, changesetVars, versionVars,
      workspaceVars, repositoryVars,
      createVars, membersVars>>

exceptWorkspace ==
    <<changeVars, scopeVars, changesetVars, versionVars, dependentsVars,
      repositoryVars,
      createVars, membersVars>>

exceptRepository ==
    <<changeVars, scopeVars, changesetVars, versionVars, dependentsVars,
      workspaceVars,
      createVars, membersVars>>

exceptCreate ==
    <<changeVars, scopeVars, changesetVars, versionVars, workspaceVars,
      repositoryVars, membersVars>>

exceptMembers ==
    <<changeVars, scopeVars, changesetVars, versionVars, dependentsVars,
      workspaceVars, repositoryVars, createVars>>

----------------------------------------------------------------------------
(* Bounds of the model *)

\* Maximum number of tokens a generated summary is concatenated from
MaxTokens == 4

\* Maximum number of scopes added to a scope set builder
MaxScopes == 3

\* Maximum number of Changeset::add calls in one run
MaxCommits == 2

\* The greatest value of a version number: u64::MAX of a narrow u64
U64_MAX == 3

\* Maximum number of dependency edges of a workspace graph
MaxEdges == 3

\* Maximum number of revisions of a changeset rendered as a changelog
MaxRevisions == 4

----------------------------------------------------------------------------
(* Each specification below runs one component; the variables of the other *)
(* components stay at these values.                                        *)

Pending == [ok |-> FALSE, err |-> "Pending"]

ChangeIdle ==
    /\ value = <<>>
    /\ change = Pending
    /\ shown = <<>>
    /\ reparsed = Pending
    /\ stage = "idle"

ScopesIdle ==
    /\ paths = <<>>
    /\ globs = <<>>
    /\ built = FALSE
    /\ lookup = <<>>
    /\ outcome = "Idle"

ChangesetIdle ==
    /\ scopes = <<>>
    /\ revisions = <<>>
    /\ increments = <<>>
    /\ calls = <<>>

VersionIdle ==
    /\ version = <<>>
    /\ last = <<>>

DependentsIdle ==
    /\ edges = {}
    /\ current = <<>>
    /\ entry = <<>>
    /\ visits = <<>>
    /\ phase = "idle"

WorkspaceIdle ==
    /\ manifests = <<>>
    /\ requested = <<>>
    /\ versions = <<>>
    /\ position = 0
    /\ syncs = 0
    /\ returned = "Idle"

RepositoryIdle ==
    /\ parents = <<>>
    /\ tip = 0
    /\ tags = <<>>
    /\ asked = <<>>
    /\ yielded = Pending

CreateIdle ==
    /\ members = {}
    /\ environment = <<>>
    /\ step = "idle"
    /\ effects = <<>>
    /\ exit = "idle"

MembersIdle ==
    /\ disk = <<>>
    /\ pending = <<>>
    /\ found = <<>>
    /\ finished = FALSE

----------------------------------------------------------------------------
(* Generic helpers *)

Min(S) == CHOOSE x \in S : \A y \in S : x <= y

Max(S) == CHOOSE x \in S : \A y \in S : x >= y

\* value[a..b] of Rust: 0-based, half-open
Slice(s, a, b) == SubSeq(s, a + 1, b)

RECURSIVE Concat(_)
Concat(ss) == IF ss = <<>> THEN <<>> ELSE Head(ss) \o Concat(Tail(ss))

RECURSIVE Join(_, _)
Join(parts, sep) ==
    IF parts = <<>> THEN <<>>
    ELSE IF Len(parts) = 1 THEN parts[1]
    ELSE parts[1] \o sep \o Join(Tail(parts), sep)

\* A BTreeSet collected into a Vec: ascending, without duplicates
RECURSIVE SortedSeq(_)
SortedSeq(S) ==
    IF S = {} THEN <<>> ELSE <<Min(S)>> \o SortedSeq(S \ {Min(S)})

----------------------------------------------------------------------------
(* Characters *)

UpperChars ==
    {"A", "B", "C", "D", "E", "F", "G", "H", "I", "J", "K", "L", "M",
     "N", "O", "P", "Q", "R", "S", "T", "U", "V", "W", "X", "Y", "Z"}

LowerChars ==
    {"a", "b", "c", "d", "e", "f", "g", "h", "i", "j", "k", "l", "m",
     "n", "o", "p", "q", "r", "s", "t", "u", "v", "w", "x", "y", "z"}

DigitChars == {"0", "1", "2", "3", "4", "5", "6", "7", "8", "9"}

WhitespaceChars == {" ", "\t", "\n"}

PunctuationChars == {".", "!", "?", ",", ";", ":"}

\* Characters outside ASCII: their UTF-8 encoding has more than one byte
NonAsciiChars == {"é"}

IsAscii(c) == c \notin NonAsciiChars

IsUppercase(c) == c \in UpperChars

IsAlphabetic(c) == c \in UpperChars \cup LowerChars

IsNumeric(c) == c \in DigitChars

IsWhitespace(c) == c \in WhitespaceChars

DigitValue(c) ==
    CASE c = "0" -> 0 [] c = "1" -> 1 [] c = "2" -> 2 [] c = "3" -> 3
      [] c = "4" -> 4 [] c = "5" -> 5 [] c = "6" -> 6 [] c = "7" -> 7
      [] c = "8" -> 8 [] c = "9" -> 9

DigitChar(d) ==
    CASE d = 0 -> "0" [] d = 1 -> "1" [] d = 2 -> "2" [] d = 3 -> "3"
      [] d = 4 -> "4" [] d = 5 -> "5" [] d = 6 -> "6" [] d = 7 -> "7"
      [] d = 8 -> "8" [] d = 9 -> "9"

----------------------------------------------------------------------------
(* str methods used by the parser *)

RECURSIVE TrimStart(_)
TrimStart(s) ==
    IF s # <<>> /\ IsWhitespace(Head(s)) THEN TrimStart(Tail(s)) ELSE s

RECURSIVE TrimEnd(_)
TrimEnd(s) ==
    IF s # <<>> /\ IsWhitespace(s[Len(s)])
    THEN TrimEnd(SubSeq(s, 1, Len(s) - 1))
    ELSE s

Trim(s) == TrimEnd(TrimStart(s))

\* str::find of a pattern: 0-based index of the first occurrence, -1 if none
Find(s, pat) ==
    LET hits == {i \in 0..(Len(s) - Len(pat)) :
                    SubSeq(s, i + 1, i + Len(pat)) = pat}
    IN  IF hits = {} THEN -1 ELSE Min(hits)

\* str::find of the first character that is not numeric, -1 if none
FindNonNumeric(s) ==
    LET hits == {i \in 0..(Len(s) - 1) : ~IsNumeric(s[i + 1])}
    IN  IF hits = {} THEN -1 ELSE Min(hits)

\* str::split_whitespace().next().unwrap_or("")
FirstWord(s) ==
    LET t == TrimStart(s)
        ws == {i \in 1..Len(t) : IsWhitespace(t[i])}
    IN  IF ws = {} THEN t ELSE SubSeq(t, 1, Min(ws) - 1)

\* str::parse::<u32>() of a non-empty run of ASCII digits: -1 on overflow
U32MaxDigits == <<"4", "2", "9", "4", "9", "6", "7", "2", "9", "5">>

RECURSIVE StripZeros(_)
StripZeros(ds) ==
    IF Len(ds) > 1 /\ Head(ds) = "0" THEN StripZeros(Tail(ds)) ELSE ds

RECURSIVE DigitsLeq(_, _)
DigitsLeq(a, b) ==
    IF a = <<>> THEN TRUE
    ELSE IF DigitValue(Head(a)) # DigitValue(Head(b))
         THEN DigitValue(Head(a)) < DigitValue(Head(b))
         ELSE DigitsLeq(Tail(a), Tail(b))

RECURSIVE DigitsValue(_)
DigitsValue(ds) ==
    IF ds = <<>> THEN 0
    ELSE DigitsValue(SubSeq(ds, 1, Len(ds) - 1)) * 10 + DigitValue(ds[Len(ds)])

ParseU32(ds) ==
    LET d == StripZeros(ds)
    IN  IF Len(d) > Len(U32MaxDigits)
           \/ (Len(d) = Len(U32MaxDigits) /\ ~DigitsLeq(d, U32MaxDigits))
        THEN -1
        ELSE DigitsValue(d)

\* Display of a u32
RECURSIVE U32ToString(_)
U32ToString(n) ==
    IF n < 10 THEN <<DigitChar(n)>>
    ELSE U32ToString(n \div 10) \o <<DigitChar(n % 10)>>

----------------------------------------------------------------------------
(* Change kind *)

Kinds ==
    {"Feature", "Fix", "Performance", "Refactor", "Build", "Docs", "Style",
     "Test", "Chore"}

\* Display for Kind
KindFmt(kind) ==
    CASE kind = "Feature" -> <<"f", "e", "a", "t", "u", "r", "e">>
      [] kind = "Fix" -> <<"f", "i", "x">>
      [] kind = "Performance" ->
            <<"p", "e", "r", "f", "o", "r", "m", "a", "n", "c", "e">>
      [] kind = "Refactor" -> <<"r", "e", "f", "a", "c", "t", "o", "r">>
      [] kind = "Build" -> <<"b", "u", "i", "l", "d">>
      [] kind = "Docs" -> <<"d", "o", "c", "s">>
      [] kind = "Style" -> <<"s", "t", "y", "l", "e">>
      [] kind = "Test" -> <<"t", "e", "s", "t">>
      [] kind = "Chore" -> <<"c", "h", "o", "r", "e">>

\* Kind::from_str accepting the abbreviations feat and perf
KindFromStrAbbreviated(s) ==
    CASE s \in {<<"f", "e", "a", "t", "u", "r", "e">>, <<"f", "e", "a", "t">>}
            -> "Feature"
      [] s = <<"f", "i", "x">> -> "Fix"
      [] s \in {<<"p", "e", "r", "f", "o", "r", "m", "a", "n", "c", "e">>,
                <<"p", "e", "r", "f">>} -> "Performance"
      [] s = <<"r", "e", "f", "a", "c", "t", "o", "r">> -> "Refactor"
      [] s = <<"b", "u", "i", "l", "d">> -> "Build"
      [] s = <<"d", "o", "c", "s">> -> "Docs"
      [] s = <<"s", "t", "y", "l", "e">> -> "Style"
      [] s = <<"t", "e", "s", "t">> -> "Test"
      [] s = <<"c", "h", "o", "r", "e">> -> "Chore"
      [] OTHER -> "Err"

\* Kind::from_str: the kind, or "Err" for the Kind error
KindFromStr(s) ==
    CASE s = <<"f", "e", "a", "t", "u", "r", "e">> -> "Feature"
      [] s = <<"f", "i", "x">> -> "Fix"
      [] s = <<"p", "e", "r", "f", "o", "r", "m", "a", "n", "c", "e">> ->
            "Performance"
      [] s = <<"r", "e", "f", "a", "c", "t", "o", "r">> -> "Refactor"
      [] s = <<"b", "u", "i", "l", "d">> -> "Build"
      [] s = <<"d", "o", "c", "s">> -> "Docs"
      [] s = <<"s", "t", "y", "l", "e">> -> "Style"
      [] s = <<"t", "e", "s", "t">> -> "Test"
      [] s = <<"c", "h", "o", "r", "e">> -> "Chore"
      [] OTHER -> "Err"

----------------------------------------------------------------------------
(* Change: from_str, extract, Display, as_increment *)

Err(e) == [ok |-> FALSE, err |-> e]

\* extract: the loop over end in 0..value.len(), then the trailing part.
\* end counts bytes: value[end..=end] on the first byte of a character of
\* several bytes is a slice that ends inside the character, which panics.
\* Up to the first such character bytes and characters coincide.
RECURSIVE ExtractLoop(_, _, _, _, _)
ExtractLoop(v, end, start, parts, refs) ==
    IF end >= Len(v)
    THEN [ok |-> TRUE,
          summary |-> Join(Append(parts, Trim(Slice(v, start, Len(v)))),
                           <<" ">>),
          references |-> refs]
    ELSE IF end < start
    THEN ExtractLoop(v, end + 1, start, parts, refs)
    ELSE IF ~IsAscii(v[end + 1])
    THEN Err("Panic")
    ELSE IF v[end + 1] # "#"
    THEN ExtractLoop(v, end + 1, start, parts, refs)
    ELSE
        LET rest == Slice(v, end + 1, Len(v))
            after == FindNonNumeric(rest)
            reference == ParseU32(Slice(rest, 0, after))
        IN  IF after <= 0
            THEN ExtractLoop(v, end + 1, start, parts, refs)
            ELSE IF reference < 0 \/ end = 0
            THEN ExtractLoop(v, end + 1, start, parts, refs)
            ELSE IF v[end] = "(" /\ v[end + after + 2] = ")"
            THEN ExtractLoop(v, end + 1, end + after + 2,
                             Append(parts, Trim(Slice(v, start, end - 1))),
                             refs \cup {reference})
            ELSE Err("Reference")

extract(v) == ExtractLoop(v, 0, 0, <<>>, {})

\* from_str trimming the type token before it is parsed
from_str_trimmed(v) ==
    LET at == Find(v, <<":", " ">>)
        token == Trim(Slice(v, 0, at))
        summary == Slice(v, at + 2, Len(v))
        bang == Find(token, <<"!">>)
        kind == IF bang >= 0 THEN KindFromStr(Trim(Slice(token, 0, bang)))
                ELSE KindFromStr(token)
        extracted == extract(summary)
    IN  IF at < 0 THEN Err("Format")
        ELSE IF kind = "Err" THEN Err("Kind")
        ELSE IF summary # Trim(summary) THEN Err("Whitespace")
        ELSE IF summary # <<>> /\ IsUppercase(summary[1])
                /\ \E i \in 1..Len(FirstWord(summary)) :
                      /\ IsAlphabetic(FirstWord(summary)[i])
                      /\ ~IsUppercase(FirstWord(summary)[i])
        THEN Err("Casing")
        ELSE IF summary # <<>> /\ summary[Len(summary)] \in PunctuationChars
        THEN Err("Punctuation")
        ELSE IF ~extracted.ok THEN extracted
        ELSE [ok |-> TRUE,
              kind |-> kind,
              summary |-> extracted.summary,
              references |-> SortedSeq(extracted.references),
              is_breaking |-> bang >= 0]

\* Change::from_str
from_str(v) ==
    LET at == Find(v, <<":", " ">>)
        token == Slice(v, 0, at)
        summary == Slice(v, at + 2, Len(v))
        bang == Find(token, <<"!">>)
        kind == IF bang >= 0 THEN KindFromStr(Slice(token, 0, bang))
                ELSE KindFromStr(token)
        word == FirstWord(summary)
        is_acronym ==
            \A i \in 1..Len(word) :
                ~IsAlphabetic(word[i]) \/ IsUppercase(word[i])
        extracted == extract(summary)
    IN  IF at < 0 THEN Err("Format")
        ELSE IF kind = "Err" THEN Err("Kind")
        ELSE IF summary # Trim(summary) THEN Err("Whitespace")
        ELSE IF summary # <<>> /\ IsUppercase(summary[1]) /\ ~is_acronym
        THEN Err("Casing")
        ELSE IF summary # <<>> /\ summary[Len(summary)] \in PunctuationChars
        THEN Err("Punctuation")
        ELSE IF ~extracted.ok THEN extracted
        ELSE [ok |-> TRUE,
              kind |-> kind,
              summary |-> extracted.summary,
              references |-> SortedSeq(extracted.references),
              is_breaking |-> bang >= 0]

\* Display for Change: the list of references "#a, #b"
RECURSIVE FmtReferences(_)
FmtReferences(refs) ==
    IF refs = <<>> THEN <<>>
    ELSE <<"#">> \o U32ToString(Head(refs))
         \o (IF Len(refs) > 1 THEN <<",", " ">> ELSE <<>>)
         \o FmtReferences(Tail(refs))

\* Display for Change
fmt(c) ==
    KindFmt(c.kind)
    \o (IF c.is_breaking THEN <<"!">> ELSE <<>>)
    \o <<":", " ">>
    \o c.summary
    \o (IF c.references # <<>>
        THEN <<" ", "(">> \o FmtReferences(c.references) \o <<")">>
        ELSE <<>>)

\* as_increment with the breaking flag checked before the kind
as_increment_breaking_first(c) ==
    IF c.is_breaking THEN "Major"
    ELSE IF c.kind = "Feature" THEN "Minor"
    ELSE IF c.kind \in {"Fix", "Performance", "Refactor"} THEN "Patch"
    ELSE "None"

\* Change::as_increment: "None" is Option::None
as_increment(c) ==
    IF c.kind \notin {"Feature", "Fix", "Performance", "Refactor"}
    THEN "None"
    ELSE IF c.is_breaking THEN "Major"
    ELSE IF c.kind = "Feature" THEN "Minor"
    ELSE "Patch"

----------------------------------------------------------------------------
(* The change parser as a state machine: a summary line is parsed, the     *)
(* resulting change is displayed, and the displayed line is parsed again.  *)

ParseErrors ==
    {"Format", "Kind", "Whitespace", "Casing", "Punctuation", "Reference"}

\* Pieces the generated summaries are concatenated from
Tokens ==
    { <<"a">>, <<" ">>, <<"(", "#", "4", ")">>, <<"(", "#", "1", "2", ")">>,
      <<"#", "5">>, <<"(">>, <<"A">>, <<".">>, <<"é">> }

Summaries(n) ==
    UNION { {Concat(f) : f \in [1..k -> Tokens]} : k \in 0..n }

\* Type tokens with their separator, well-formed and not
GoodPrefixes ==
    { KindFmt(k) \o b \o <<":", " ">> : k \in Kinds, b \in {<<>>, <<"!">>} }

BadPrefixes ==
    { <<"f", "e", "a", "t", ":", " ">>,
      <<"F", "i", "x", ":", " ">>,
      <<" ", "f", "i", "x", ":", " ">>,
      <<"f", "i", "x", " ", ":", " ">>,
      <<"f", "i", "x", ":">>,
      <<"f", "i", "x", " ", ":">>,
      <<"f", "i", "x", " ">>,
      <<"f", "i", "x", ":", " ", " ">>,
      <<"f", "i", "x", "!", "x", ":", " ">>,
      <<"f", "x", "i", ":", " ">>,
      <<"p", "e", "r", "f", ":", " ">>,
      <<"d", "o", "c", ":", " ">>,
      <<"F", "E", "A", "T", "U", "R", "E", ":", " ">>,
      <<"!", "f", "i", "x", ":", " ">> }

MainPrefixes ==
    { <<"f", "i", "x", ":", " ">>,
      <<"f", "e", "a", "t", "u", "r", "e", "!", ":", " ">> }

\* The summary lines the specification's scenarios name
ScenarioLines ==
    { <<"f", "i", "x", ":", " ", "s", "u", "m", "m", "a", "r", "y">>,
      <<"f", "i", "x", "!", ":", " ", "s", "u", "m", "m", "a", "r", "y">>,
      <<"f", "e", "a", "t", "u", "r", "e", ":", " ", "s", "u", "p", "p", "o",
        "r", "t", " ", "(", "#", "1", "2", ")", " ", "a", "n", "d", " ", "(",
        "#", "4", ")">>,
      <<"f", "i", "x", ":", " ", "c", "l", "o", "s", "e", "s", " ", "#",
        "5">>,
      <<"f", "i", "x", ":", " ", "S", "u", "m", "m", "a", "r", "y", ".">>,
      <<"f", "i", "x", ":", "s", "u", "m", "m", "a", "r", "y">>,
      <<"f", "i", "x", " ", ":", "s", "u", "m", "m", "a", "r", "y">>,
      <<"f", "i", "x", " ", ":", " ", "s", "u", "m", "m", "a", "r", "y">>,
      <<"f", "i", "x", " ", "s", "u", "m", "m", "a", "r", "y">>,
      <<"f", "i", "x", ":", " ", " ", "s", "u", "m", "m", "a", "r", "y">>,
      <<" ", "f", "i", "x", ":", " ", "s", "u", "m", "m", "a", "r", "y">>,
      <<"f", "x", "i", ":", " ", "s", "u", "m", "m", "a", "r", "y">>,
      <<"f", "e", "a", "t", ":", " ", "s", "u", "m", "m", "a", "r", "y">> }

Lines ==
    { p \o s : p \in MainPrefixes, s \in Summaries(MaxTokens) }
    \cup { p \o s : p \in GoodPrefixes \cup BadPrefixes, s \in Summaries(1) }
    \cup ScenarioLines

ChangeInit ==
    /\ value \in Lines
    /\ change = Pending
    /\ shown = <<>>
    /\ reparsed = Pending
    /\ stage = "line"
    /\ ScopesIdle
    /\ ChangesetIdle
    /\ VersionIdle
    /\ DependentsIdle
    /\ WorkspaceIdle
    /\ RepositoryIdle
    /\ CreateIdle
    /\ MembersIdle

\* let change = Change::from_str(value)
Parse ==
    /\ stage = "line"
    /\ change' = from_str(value)
    /\ stage' = "parsed"
    /\ UNCHANGED <<value, shown, reparsed, exceptChange>>

\* let shown = change.to_string()
Show ==
    /\ stage = "parsed"
    /\ change.ok
    /\ shown' = fmt(change)
    /\ stage' = "shown"
    /\ UNCHANGED <<value, change, reparsed, exceptChange>>

\* let reparsed = Change::from_str(&shown)
Reparse ==
    /\ stage = "shown"
    /\ reparsed' = from_str(shown)
    /\ stage' = "reparsed"
    /\ UNCHANGED <<value, change, shown, exceptChange>>

ChangeNext == Parse \/ Show \/ Reparse

SpecChange == ChangeInit /\ [][ChangeNext]_vars

----------------------------------------------------------------------------
(* Scope set.  A path is the sequence of its components; an absolute path  *)
(* starts with the root component "/".  A glob is the path joined with     *)
(* the component "**".                                                     *)

RootDir == "/"

is_relative(path) == path = <<>> \/ path[1] # RootDir

\* Path::join("**")
JoinGlob(path) == Append(path, "**")

\* Glob "<path>/**" against a candidate path: "**" alone matches every
\* path, "<path>/**" matches what lies below <path>
GlobMatches(glob, candidate) ==
    LET dir == SubSeq(glob, 1, Len(glob) - 1)
    IN  IF dir = <<>> THEN TRUE
        ELSE /\ Len(candidate) > Len(dir)
             /\ SubSeq(candidate, 1, Len(dir)) = dir

\* GlobSet::matches: the indices of the matching globs, ascending
GlobSetMatches(gs, candidate) ==
    {i \in 1..Len(gs) : GlobMatches(gs[i], candidate)}

\* Scopes::get returning the first match instead of the deepest
ScopesGetFirst(ps, gs, candidate) ==
    IF GlobSetMatches(gs, candidate) = {} THEN 0
    ELSE Min(GlobSetMatches(gs, candidate))

\* Scopes::get: max_by_key over the matches on the number of components of
\* the scope path; of several maxima the last one.  0 is Option::None,
\* indices count from 1.
ScopesGet(ps, gs, candidate) ==
    LET matches == GlobSetMatches(gs, candidate)
        best == Max({Len(ps[i].path) : i \in matches})
    IN  IF matches = {} THEN 0
        ELSE Max({i \in matches : Len(ps[i].path) = best})

\* Components that open a character class or an alternation of a glob
\* without closing it
UnclosedComponents == {"[", "{"}

\* Glob::new: whether the pattern parses
IsGlob(glob) == \A i \in 1..Len(glob) : glob[i] \notin UnclosedComponents

\* Builder::add: the error it returns, or "Ok"
BuilderAddResult(ps, path) ==
    IF ~is_relative(path) THEN "PathAbsolute"
    ELSE IF \E i \in 1..Len(ps) : ps[i].path = path THEN "PathExists"
    ELSE IF ~IsGlob(JoinGlob(path)) THEN "Glob"
    ELSE "Ok"

----------------------------------------------------------------------------
(* The scope set as a state machine: scopes are added to a builder, the    *)
(* scope set is built, and paths are looked up.                            *)

ScopeNames == {"root", "mono"}

ScopeComponents == {"crates", "mono"}

FileComponents == {"crates", "mono", "other"}

\* Paths of at most n components over the components C
PathsUpTo(C, n) == UNION { [1..k -> C] : k \in 0..n }

\* Paths handed to Builder::add: relative directories, an absolute one,
\* and one that is no glob
ScopePaths ==
    PathsUpTo(ScopeComponents, 2) \cup { <<RootDir, "crates">>, <<"[">> }

\* Paths handed to Scopes::get: files named by commit deltas
FilePaths ==
    (PathsUpTo(FileComponents, 3) \ { <<>> })
    \cup { <<"crates", "mono", "src", "lib.rs">>, <<"crates", "other", "x">> }

ScopesInit ==
    /\ paths = <<>>
    /\ globs = <<>>
    /\ built = FALSE
    /\ lookup = <<>>
    /\ outcome = "Ok"
    /\ ChangeIdle
    /\ ChangesetIdle
    /\ VersionIdle
    /\ DependentsIdle
    /\ WorkspaceIdle
    /\ RepositoryIdle
    /\ CreateIdle
    /\ MembersIdle

\* builder.add(path, name): the path is pushed before the glob is
\* created, whose error the ? operator returns
BuilderAdd(path, name) ==
    /\ ~built
    /\ Len(paths) < MaxScopes
    /\ outcome' = BuilderAddResult(paths, path)
    /\ IF outcome' = "Ok"
       THEN /\ paths' = Append(paths, [path |-> path, name |-> name])
            /\ globs' = Append(globs, JoinGlob(path))
       ELSE IF outcome' = "Glob"
       THEN /\ paths' = Append(paths, [path |-> path, name |-> name])
            /\ UNCHANGED globs
       ELSE UNCHANGED <<paths, globs>>
    /\ UNCHANGED <<built, lookup, exceptScopes>>

\* builder.build()
BuilderBuild ==
    /\ ~built
    /\ built' = TRUE
    /\ outcome' = "Ok"
    /\ UNCHANGED <<paths, globs, lookup, exceptScopes>>

\* scopes.get(path); a run looks one path up, Scopes::get changes nothing
Get(path) ==
    /\ built
    /\ lookup = <<>>
    /\ lookup' = <<[path |-> path, index |-> ScopesGet(paths, globs, path)]>>
    /\ UNCHANGED <<paths, globs, built, outcome, exceptScopes>>

ScopesNext ==
    \/ \E path \in ScopePaths, name \in ScopeNames : BuilderAdd(path, name)
    \/ BuilderBuild
    \/ \E path \in FilePaths : Get(path)

SpecScopes == ScopesInit /\ [][ScopesNext]_vars

----------------------------------------------------------------------------
(* Changeset *)

\* Option<Increment> under its Ord: None < Patch < Minor < Major
IncrementRank(i) ==
    CASE i = "None" -> 0 [] i = "Patch" -> 1 [] i = "Minor" -> 2
      [] i = "Major" -> 3

\* cmp::max on Option<Increment>
CmpMax(a, b) == IF IncrementRank(b) >= IncrementRank(a) THEN b ELSE a

\* str::split_whitespace
RECURSIVE SplitWhitespace(_)
SplitWhitespace(s) ==
    LET t == TrimStart(s)
        word == FirstWord(t)
    IN  IF t = <<>> THEN <<>>
        ELSE <<word>> \o SplitWhitespace(SubSeq(t, Len(word) + 1, Len(t)))

\* str::trim_matches(|char| !char.is_ascii_digit() && char != '#')
RECURSIVE TrimIssue(_)
TrimIssue(w) ==
    IF w # <<>> /\ ~IsNumeric(Head(w)) /\ Head(w) # "#"
    THEN TrimIssue(Tail(w))
    ELSE IF w # <<>> /\ ~IsNumeric(w[Len(w)]) /\ w[Len(w)] # "#"
    THEN TrimIssue(SubSeq(w, 1, Len(w) - 1))
    ELSE w

\* word.strip_prefix('#').and_then(|num| num.parse().ok()): -1 is None
IssueOf(word) ==
    LET w == TrimIssue(word)
        num == IF w # <<>> /\ Head(w) = "+" THEN Tail(w) ELSE w
    IN  IF w = <<>> \/ Head(w) # "#" THEN -1
        ELSE LET n == Tail(w)
                 ds == IF n # <<>> /\ Head(n) = "+" THEN Tail(n) ELSE n
             IN  IF ds = <<>> \/ \E i \in 1..Len(ds) : ~IsNumeric(ds[i])
                 THEN -1
                 ELSE ParseU32(ds)

\* parse_issues
parse_issues(body) ==
    LET words == SplitWhitespace(body)
    IN  {IssueOf(words[i]) : i \in 1..Len(words)} \ {-1}

\* Changeset::with_config: the scope builder fed with the packages
RECURSIVE BuildScopes(_, _, _)
BuildScopes(pkgs, ps, gs) ==
    IF pkgs = <<>> THEN [ok |-> TRUE, paths |-> ps, globs |-> gs]
    ELSE IF BuilderAddResult(ps, Head(pkgs).path) # "Ok"
    THEN Err(BuilderAddResult(ps, Head(pkgs).path))
    ELSE BuildScopes(Tail(pkgs), Append(ps, Head(pkgs)),
                     Append(gs, JoinGlob(Head(pkgs).path)))

with_config(pkgs) == BuildScopes(pkgs, <<>>, <<>>)

\* Changeset::add, lines 103-106: the scopes affected by the commit
AffectedScopes(sc, deltas) ==
    {ScopesGet(sc.paths, sc.globs, deltas[d]) : d \in 1..Len(deltas)} \ {0}

\* The update storing the commit's increment instead of the maximum
UpdateIncrementsOverwrite(incs, affected, increment) ==
    [i \in 1..Len(incs) |-> IF i \in affected THEN increment ELSE incs[i]]

\* Changeset::add, lines 109-113: the increments after the update
UpdateIncrements(incs, affected, increment) ==
    [i \in 1..Len(incs) |->
        IF i \in affected THEN CmpMax(incs[i], increment) ELSE incs[i]]

\* Changeset::add, lines 117-125: the revision pushed
MakeRevision(commit, parsed, affected) ==
    [commit |-> commit,
     change |-> parsed,
     scopes |-> SortedSeq(affected),
     issues |-> SortedSeq(parse_issues(commit.body))]

\* str::lines, for a message without a line feed at its end
RECURSIVE SplitLines(_)
SplitLines(s) ==
    IF Find(s, <<"\n">>) < 0 THEN <<s>>
    ELSE <<Slice(s, 0, Find(s, <<"\n">>))>>
         \o SplitLines(Slice(s, Find(s, <<"\n">>) + 1, Len(s)))

\* A line "<key>:<value>" with a key without whitespace
IsTrailerLine(line) ==
    /\ Find(line, <<":">>) > 0
    /\ \A i \in 1..Find(line, <<":">>) : ~IsWhitespace(line[i])

\* The last paragraph of a message: what follows its last empty line
LastParagraph(message) ==
    LET m == TrimEnd(message)
        breaks == {i \in 1..(Len(m) - 1) : m[i] = "\n" /\ m[i + 1] = "\n"}
    IN  IF breaks = {} THEN m ELSE SubSeq(m, Max(breaks) + 2, Len(m))

\* git2::message_trailers_strs("\n\n" + message): the key of the first
\* trailer, <<>> when the message has no trailers.  The trailers are the
\* last paragraph when each of its lines is a trailer line.
FirstTrailerKey(message) ==
    LET block == SplitLines(LastParagraph(message))
    IN  IF LastParagraph(message) # <<>>
           /\ \A i \in 1..Len(block) : IsTrailerLine(block[i])
        THEN Slice(block[1], 0, Find(block[1], <<":">>))
        ELSE <<>>

\* trim_trailers: message.split_once(key), the part before the key
trim_trailers(message) ==
    LET key == FirstTrailerKey(message)
    IN  IF key = <<>> \/ Find(message, key) < 0 THEN message
        ELSE Slice(message, 0, Find(message, key))

\* Changeset::summary
summary(revs) ==
    IF revs = <<>> \/ revs[1].commit.body = <<>> THEN Err("Summary")
    ELSE IF Trim(trim_trailers(revs[1].commit.body)) = <<>>
    THEN Err("Summary")
    ELSE [ok |-> TRUE, value |-> Trim(trim_trailers(revs[1].commit.body))]

----------------------------------------------------------------------------
(* The changeset as a state machine: a changeset is created for a          *)
(* workspace, and commits are added to it.                                 *)

\* The packages of the workspaces the changeset is created for
Workspaces ==
    { << [path |-> <<"crates">>, name |-> "root"],
         [path |-> <<"crates", "mono">>, name |-> "mono"] >>,
      << [path |-> <<>>, name |-> "root"],
         [path |-> <<"crates", "mono">>, name |-> "mono"],
         [path |-> <<"crates", "other">>, name |-> "other"] >> }

\* Summary lines of commits: one per increment, and one per parse error
GoodSummaries ==
    { <<"f", "i", "x", ":", " ", "a">>,
      <<"f", "e", "a", "t", "u", "r", "e", ":", " ", "a">>,
      <<"r", "e", "f", "a", "c", "t", "o", "r", "!", ":", " ", "a">>,
      <<"d", "o", "c", "s", "!", ":", " ", "a">>,
      <<"c", "h", "o", "r", "e", ":", " ", "a">> }

BadSummaries ==
    { <<"f", "i", "x", ":", "a">>,
      <<"f", "e", "a", "t", ":", " ", "a">>,
      <<"f", "i", "x", ":", " ", " ", "a">>,
      <<"f", "i", "x", ":", " ", "A", "b">>,
      <<"f", "i", "x", ":", " ", "a", ".">>,
      <<"f", "i", "x", ":", " ", "a", " ", "#", "5", " ", "b">>,
      <<"M", "e", "r", "g", "e", " ", "b">> }

\* Summary lines with a character outside ASCII
NonAsciiSummaries == { <<"f", "i", "x", ":", " ", "é">> }

\* What Commit::deltas gives: the delta paths, or an error
Deltas(ps) == [ok |-> TRUE, paths |-> ps]

DeltasError == [ok |-> FALSE, paths |-> <<>>]

DeltaLists ==
    { Deltas(<<>>),
      Deltas(<< <<"crates", "mono", "mono">> >>),
      Deltas(<< <<"crates", "other", "mono">>,
                <<"crates", "mono", "other">> >>),
      Deltas(<< <<"crates", "crates">> >>),
      Deltas(<< <<"other", "mono">> >>) }

\* What Commit::body gives; the empty body is Option::None.  The bodies:
\* none, text, text and a trailer, a trailer alone, whitespace alone, and
\* text that starts with the word that is the key of the trailer.
Bodies ==
    { <<>>,
      <<"s", "e", "e", " ", "#", "7", ".">>,
      <<"a", "\n", "\n", "F", "i", "x", "e", "s", ":", " ", "#", "7">>,
      <<"F", "i", "x", "e", "s", ":", " ", "#", "7">>,
      <<" ", "\n">>,
      <<"F", "i", "x", "e", "s", " ", "a", "\n", "\n",
        "F", "i", "x", "e", "s", ":", " ", "#", "7">> }

Commits ==
    { [summary |-> s, deltas |-> d, body |-> <<>>] :
        s \in GoodSummaries,
        d \in { Deltas(<< <<"crates", "mono", "mono">> >>), DeltasError } }
    \cup
    { [summary |-> s, deltas |-> d, body |-> <<>>] :
        s \in { <<"f", "i", "x", ":", " ", "a">>,
                <<"r", "e", "f", "a", "c", "t", "o", "r", "!", ":", " ", "a">> },
        d \in DeltaLists }
    \cup
    { [summary |-> s, deltas |-> Deltas(<< <<"crates", "mono", "mono">> >>),
       body |-> <<>>] : s \in BadSummaries \cup NonAsciiSummaries }
    \cup
    { [summary |-> s, deltas |-> d, body |-> b] :
        s \in { <<"f", "i", "x", ":", " ", "a", " ", "#", "5", " ", "b">>,
                <<"M", "e", "r", "g", "e", " ", "b">> },
        d \in { Deltas(<< <<"crates", "mono", "mono">> >>), DeltasError },
        b \in { <<>>, <<"s", "e", "e", " ", "#", "7", ".">> } }
    \cup
    { [summary |-> <<"f", "i", "x", ":", " ", "a">>,
       deltas |-> Deltas(<< <<"crates", "mono", "mono">> >>),
       body |-> b] : b \in Bodies }

\* The commits handed to extend in one call
ExtendCommits ==
    { [summary |-> s, deltas |-> d, body |-> <<>>] :
        s \in { <<"f", "i", "x", ":", " ", "a">>,
                <<"r", "e", "f", "a", "c", "t", "o", "r", "!", ":", " ", "a">>,
                <<"M", "e", "r", "g", "e", " ", "b">> },
        d \in { Deltas(<< <<"crates", "mono", "mono">> >>), DeltasError } }
    \cup
    { [summary |-> <<"f", "i", "x", ":", " ", "é">>,
       deltas |-> Deltas(<< <<"crates", "mono", "mono">> >>),
       body |-> <<>>] }

ChangesetInit ==
    /\ \E pkgs \in Workspaces :
          /\ with_config(pkgs).ok
          /\ scopes = [paths |-> with_config(pkgs).paths,
                       globs |-> with_config(pkgs).globs]
          /\ increments = [i \in 1..Len(pkgs) |-> "None"]
    /\ revisions = <<>>
    /\ calls = <<>>
    /\ ChangeIdle
    /\ ScopesIdle
    /\ VersionIdle
    /\ DependentsIdle
    /\ WorkspaceIdle
    /\ RepositoryIdle
    /\ CreateIdle
    /\ MembersIdle

\* A call of add panicked: the changeset is gone with the process
Aborted == \E k \in 1..Len(calls) : calls[k].result = "Panic"

\* add retrieving the deltas before it parses the summary
AddIgnoredDeltasFirst(commit) ==
    /\ Len(calls) < MaxCommits
    /\ ~Aborted
    /\ ~from_str(commit.summary).ok
    /\ from_str(commit.summary).err \in ParseErrors
    /\ calls' = Append(calls, [commit |-> commit,
                               result |-> IF commit.deltas.ok THEN "Ok"
                                          ELSE "Repository"])
    /\ UNCHANGED <<scopes, revisions, increments, exceptChangeset>>

\* changeset.add(commit) on a commit whose summary does not parse
AddIgnored(commit) ==
    /\ Len(calls) < MaxCommits
    /\ ~Aborted
    /\ ~from_str(commit.summary).ok
    /\ from_str(commit.summary).err \in ParseErrors
    /\ calls' = Append(calls, [commit |-> commit, result |-> "Ok"])
    /\ UNCHANGED <<scopes, revisions, increments, exceptChangeset>>

\* changeset.add(commit) on a commit whose summary makes from_str panic
AddAborted(commit) ==
    /\ Len(calls) < MaxCommits
    /\ ~Aborted
    /\ from_str(commit.summary) = Err("Panic")
    /\ calls' = Append(calls, [commit |-> commit, result |-> "Panic"])
    /\ UNCHANGED <<scopes, revisions, increments, exceptChangeset>>

\* changeset.add(commit) on a commit whose deltas can't be retrieved
AddFailed(commit) ==
    /\ Len(calls) < MaxCommits
    /\ ~Aborted
    /\ from_str(commit.summary).ok
    /\ ~commit.deltas.ok
    /\ calls' = Append(calls, [commit |-> commit, result |-> "Repository"])
    /\ UNCHANGED <<scopes, revisions, increments, exceptChangeset>>

\* add pushing the revision to the front of the revisions
AddRevisionInFront(commit) ==
    /\ Len(calls) < MaxCommits
    /\ ~Aborted
    /\ from_str(commit.summary).ok
    /\ commit.deltas.ok
    /\ LET parsed == from_str(commit.summary)
           affected == AffectedScopes(scopes, commit.deltas.paths)
       IN  /\ increments' =
                 UpdateIncrements(increments, affected, as_increment(parsed))
           /\ revisions' =
                 <<MakeRevision(commit, parsed, affected)>> \o revisions
    /\ calls' = Append(calls, [commit |-> commit, result |-> "Ok"])
    /\ UNCHANGED <<scopes, exceptChangeset>>

\* changeset.add(commit) otherwise
AddRevision(commit) ==
    /\ Len(calls) < MaxCommits
    /\ ~Aborted
    /\ from_str(commit.summary).ok
    /\ commit.deltas.ok
    /\ LET parsed == from_str(commit.summary)
           affected == AffectedScopes(scopes, commit.deltas.paths)
       IN  /\ increments' =
                 UpdateIncrements(increments, affected, as_increment(parsed))
           /\ revisions' =
                 Append(revisions, MakeRevision(commit, parsed, affected))
    /\ calls' = Append(calls, [commit |-> commit, result |-> "Ok"])
    /\ UNCHANGED <<scopes, exceptChangeset>>

\* One call of add inside extend, on the changeset st
AddWithin(st, commit) ==
    LET parsed == from_str(commit.summary)
        affected == AffectedScopes(scopes, commit.deltas.paths)
        result == IF parsed.ok
                  THEN IF commit.deltas.ok THEN "Ok" ELSE "Repository"
                  ELSE IF parsed.err \in ParseErrors THEN "Ok" ELSE "Panic"
    IN  [revisions |->
            IF parsed.ok /\ commit.deltas.ok
            THEN Append(st.revisions, MakeRevision(commit, parsed, affected))
            ELSE st.revisions,
         increments |->
            IF parsed.ok /\ commit.deltas.ok
            THEN UpdateIncrements(st.increments, affected,
                                  as_increment(parsed))
            ELSE st.increments,
         calls |-> Append(st.calls, [commit |-> commit, result |-> result])]

\* Changeset::extend: add for each commit, up to the first that fails
RECURSIVE ExtendLoop(_, _)
ExtendLoop(st, commits) ==
    IF commits = <<>> THEN st
    ELSE LET next == AddWithin(st, Head(commits))
         IN  IF next.calls[Len(next.calls)].result # "Ok" THEN next
             ELSE ExtendLoop(next, Tail(commits))

\* changeset.extend(commits)
Extend(commits) ==
    /\ Len(calls) + Len(commits) <= MaxCommits
    /\ ~Aborted
    /\ LET st == ExtendLoop([revisions |-> revisions,
                             increments |-> increments,
                             calls |-> calls], commits)
       IN  /\ revisions' = st.revisions
           /\ increments' = st.increments
           /\ calls' = st.calls
    /\ UNCHANGED <<scopes, exceptChangeset>>

ChangesetNext ==
    \/ \E commit \in Commits : AddIgnored(commit)
    \/ \E commit \in Commits : AddAborted(commit)
    \/ \E commit \in Commits : AddFailed(commit)
    \/ \E commit \in Commits : AddRevision(commit)
    \/ \E n \in 0..MaxCommits :
          \E commits \in [1..n -> ExtendCommits] : Extend(commits)

SpecChangeset == ChangesetInit /\ [][ChangesetNext]_vars

----------------------------------------------------------------------------
(* Changelog: the revisions grouped in sections by category.  The rendered *)
(* changelog is a sequence of pieces: [text |-> ...] for literal text,     *)
(* [id |-> commit] for the short id of a commit, [chars |-> ...] for the   *)
(* summary of a change and [number |-> n] for an issue.                    *)

\* enum Category, in the order of its Ord
Categories == <<"Breaking", "Feature", "Fix", "Performance", "Refactor">>

\* The category with the breaking flag looked at for the four kinds only
CategoryOfKindFirst(c) ==
    IF c.kind \notin {"Feature", "Fix", "Performance", "Refactor"}
    THEN "None"
    ELSE IF c.is_breaking THEN "Breaking"
    ELSE c.kind

\* From<&Change> for Option<Category>: "None" is Option::None
CategoryOf(c) ==
    IF c.is_breaking THEN "Breaking"
    ELSE IF c.kind \in {"Feature", "Fix", "Performance", "Refactor"}
    THEN c.kind
    ELSE "None"

\* Display for Category
CategoryFmt(category) ==
    CASE category = "Breaking" -> "Breaking changes"
      [] category = "Feature" -> "Features"
      [] category = "Fix" -> "Bug fixes"
      [] category = "Performance" -> "Performance improvements"
      [] category = "Refactor" -> "Refactorings"

\* Section::add: the item pushed for a revision
MakeItem(revision, sc) ==
    [revision |-> revision,
     scopes |-> [i \in 1..Len(revision.scopes) |->
                    sc.paths[revision.scopes[i]].name],
     issues |-> revision.issues]

\* Changelog::add: sections is the BTreeMap, a function on the categories
\* that have a section
ChangelogAdd(sections, revision, sc) ==
    LET category == CategoryOf(revision.change)
    IN  IF category = "None" THEN sections
        ELSE IF category \in DOMAIN sections
        THEN [sections EXCEPT
                 ![category] = Append(@, MakeItem(revision, sc))]
        ELSE [k \in DOMAIN sections \cup {category} |->
                 IF k = category THEN <<MakeItem(revision, sc)>>
                 ELSE sections[k]]

\* Extend for Changelog
RECURSIVE ChangelogExtend(_, _, _)
ChangelogExtend(sections, revs, sc) ==
    IF revs = <<>> THEN sections
    ELSE ChangelogExtend(ChangelogAdd(sections, Head(revs), sc),
                         Tail(revs), sc)

\* Changeset::to_changelog
to_changelog(revs, sc) == ChangelogExtend(<<>>, revs, sc)

\* Display for Item: a list "a, b" of pieces
RECURSIVE FmtList(_, _, _)
FmtList(pieces, before, after) ==
    IF pieces = <<>> THEN <<>>
    ELSE before \o <<Head(pieces)>> \o after
         \o (IF Len(pieces) > 1 THEN <<[text |-> ", "]>> ELSE <<>>)
         \o FmtList(Tail(pieces), before, after)

\* Display for Item; " -- " stands for the en dash between two spaces
ItemFmt(item) ==
    <<[id |-> item.revision.commit]>>
    \o (IF item.scopes # <<>>
        THEN <<[text |-> " "]>>
             \o FmtList([i \in 1..Len(item.scopes) |->
                            [text |-> item.scopes[i]]],
                        <<[text |-> "__"]>>, <<[text |-> "__"]>>)
        ELSE <<>>)
    \o <<[text |-> " -- "], [chars |-> item.revision.change.summary]>>
    \o (IF item.issues # <<>>
        THEN <<[text |-> " ("]>>
             \o FmtList([i \in 1..Len(item.issues) |->
                            [number |-> item.issues[i]]],
                        <<[text |-> "#"]>>, <<>>)
             \o <<[text |-> ")"]>>
        ELSE <<>>)

\* Display for Section: the items, each on a line of its own
RECURSIVE ItemsFmt(_)
ItemsFmt(items) ==
    IF items = <<>> THEN <<>>
    ELSE <<[text |-> "\n"], [text |-> "- "]>> \o ItemFmt(Head(items))
         \o ItemsFmt(Tail(items))

\* Display for Section
SectionFmt(category, items) ==
    <<[text |-> "### "], [text |-> CategoryFmt(category)], [text |-> "\n"]>>
    \o ItemsFmt(items)

\* Display for Changelog: BTreeMap::values, the sections by category
RECURSIVE SectionsFmt(_, _)
SectionsFmt(sections, k) ==
    IF k > Len(Categories) THEN <<>>
    ELSE (IF Categories[k] \in DOMAIN sections
          THEN <<[text |-> "\n\n"]>>
               \o SectionFmt(Categories[k], sections[Categories[k]])
          ELSE <<>>)
         \o SectionsFmt(sections, k + 1)

\* Display for Changelog
ChangelogFmt(sections) ==
    (IF DOMAIN sections # {} THEN <<[text |-> "## Changelog"]>> ELSE <<>>)
    \o SectionsFmt(sections, 1)

----------------------------------------------------------------------------
(* The changelog as a state machine: commits are collected into a          *)
(* changeset, whose revisions the changelog groups and renders.            *)

\* The commits collected: one per category, breaking or not, and two
\* without a category
ChangelogCommits ==
    { [summary |-> s, deltas |-> Deltas(<< <<"crates", "mono", "mono">> >>),
       body |-> <<>>] :
        s \in { KindFmt(k) \o b \o <<":", " ", "a">> :
                  k \in {"Feature", "Fix", "Performance", "Refactor", "Docs"},
                  b \in {<<>>} }
              \cup { <<"f", "i", "x", "!", ":", " ", "a">>,
                     <<"d", "o", "c", "s", "!", ":", " ", "a">> } }
    \cup
    { [summary |-> <<"f", "i", "x", ":", " ", "b", " ", "(", "#", "4", ")">>,
       deltas |-> Deltas(<< <<"crates", "other", "mono">>,
                            <<"crates", "mono", "other">> >>),
       body |-> <<"s", "e", "e", " ", "#", "7", ".">>] }

\* changeset.add(commit), the changeset then being rendered
Collect(commit) ==
    /\ Len(calls) < MaxRevisions
    /\ LET st == AddWithin([revisions |-> revisions,
                            increments |-> increments,
                            calls |-> calls], commit)
       IN  /\ revisions' = st.revisions
           /\ increments' = st.increments
           /\ calls' = st.calls
    /\ UNCHANGED <<scopes, exceptChangeset>>

ChangelogNext == \E commit \in ChangelogCommits : Collect(commit)

SpecChangelog == ChangesetInit /\ [][ChangelogNext]_vars

----------------------------------------------------------------------------
(* Semver bump rules.  A version is [major, minor, patch, pre, build];    *)
(* the numbers are u64, and "" is the empty pre-release or build metadata. *)

Increments == {"Patch", "Minor", "Major"}

\* u64::saturating_add(1)
saturating_add(n) == IF n = U64_MAX THEN U64_MAX ELSE n + 1

\* bump without the arms for 0.y.z and 0.0.z
bump_plain(v, increment) ==
    LET next ==
            IF increment = "Major"
            THEN [v EXCEPT !.major = saturating_add(v.major),
                           !.minor = 0, !.patch = 0]
            ELSE IF increment = "Minor"
            THEN [v EXCEPT !.minor = saturating_add(v.minor), !.patch = 0]
            ELSE [v EXCEPT !.patch = saturating_add(v.patch)]
    IN  [next EXCEPT !.pre = "", !.build = ""]

\* VersionExt::bump: the arms of the match, then pre and build reset
bump(v, increment) ==
    LET next ==
            IF v.major = 0 /\ v.minor = 0
            THEN [v EXCEPT !.patch = saturating_add(v.patch)]
            ELSE IF v.major = 0 /\ increment \in {"Major", "Minor"}
            THEN [v EXCEPT !.minor = saturating_add(v.minor), !.patch = 0]
            ELSE IF v.major = 0
            THEN [v EXCEPT !.patch = saturating_add(v.patch)]
            ELSE IF increment = "Major"
            THEN [v EXCEPT !.major = saturating_add(v.major),
                           !.minor = 0, !.patch = 0]
            ELSE IF increment = "Minor"
            THEN [v EXCEPT !.minor = saturating_add(v.minor), !.patch = 0]
            ELSE [v EXCEPT !.patch = saturating_add(v.patch)]
    IN  [next EXCEPT !.pre = "", !.build = ""]

\* VersionExt::min_bump
min_bump(v) == IF v.major = 0 /\ v.minor = 0 THEN "Patch" ELSE "None"

\* VersionExt::max_bump
max_bump(v) ==
    IF v.major = 0 /\ v.minor = 0 THEN "Patch"
    ELSE IF v.major = 0 THEN "Minor"
    ELSE "Major"

----------------------------------------------------------------------------
(* The bump rules as a state machine: a version is bumped again and again. *)

Versions ==
    [major : 0..U64_MAX, minor : 0..U64_MAX, patch : 0..U64_MAX,
     pre : {"", "rc1"}, build : {"", "abc"}]

VersionInit ==
    /\ version \in Versions
    /\ last = <<>>
    /\ ChangeIdle
    /\ ScopesIdle
    /\ ChangesetIdle
    /\ DependentsIdle
    /\ WorkspaceIdle
    /\ RepositoryIdle
    /\ CreateIdle
    /\ MembersIdle

\* version = version.bump(increment)
Bump(increment) ==
    /\ version' = bump(version, increment)
    /\ last' = <<[from |-> version, increment |-> increment]>>
    /\ UNCHANGED exceptVersion

VersionNext == \E increment \in Increments : Bump(increment)

SpecVersion == VersionInit /\ [][VersionNext]_vars

----------------------------------------------------------------------------
(* Workspace graph (zrx::graph): nodes are numbered in insertion order,    *)
(* an edge <<d, n>> points from the dependency d to its dependent n.       *)

Nodes == {1, 2, 3}

\* topology().incoming()[node]
Incoming(es, node) == {d \in Nodes : <<d, node>> \in es}

\* The nodes reachable from the nodes S, S included
RECURSIVE Reachable(_, _)
Reachable(es, S) ==
    LET next == S \cup {n \in Nodes : \E d \in S : <<d, n>> \in es}
    IN  IF next = S THEN S ELSE Reachable(es, next)

\* Graph::traverse(initial): the topological traversal restricted to the
\* nodes reachable from the initial ones.  A node can be visited once all
\* its reachable dependencies were; of several such nodes the one inserted
\* first is next.  0 when no node can be visited.
Visitable(es, initial, visited) ==
    LET within == Reachable(es, initial)
    IN  {n \in within \ visited :
            \A d \in Incoming(es, n) : d \in within => d \in visited}

TraverseNext(es, initial, visited) ==
    IF Visitable(es, initial, visited) = {} THEN 0
    ELSE Min(Visitable(es, initial, visited))

----------------------------------------------------------------------------
(* Increment propagation: Dependents::bump *)

IncrementOptions == {"None", "Patch", "Minor", "Major"}

\* A BTreeSet of Option<Increment> collected into a Vec
RECURSIVE SortedIncrements(_)
SortedIncrements(S) ==
    IF S = {} THEN <<>>
    ELSE LET least == CHOOSE i \in S :
                         \A j \in S : IncrementRank(i) <= IncrementRank(j)
         IN  <<least>> \o SortedIncrements(S \ {least})

\* The sources without the filter on the increment
SourcesAll(incs) == Nodes

\* Dependents::bump, lines 77-79: the nodes with an increment
Sources(incs) == {n \in Nodes : incs[n] # "None"}

\* The options with the comparison of the increments inverted
OptionsInverted(es, incs, node) ==
    {incs[node]} \cup
    {incs[d] : d \in {x \in Incoming(es, node) :
                         IncrementRank(incs[x]) < IncrementRank(incs[node])}}

\* Dependents::bump, lines 87-92: the options offered for a node
Options(es, incs, node) ==
    {incs[node]} \cup
    {incs[d] : d \in {x \in Incoming(es, node) :
                         IncrementRank(incs[x]) > IncrementRank(incs[node])}}

\* The returned increment stored for the node and for its dependents
StoreDownstream(incs, node, chosen) ==
    [n \in DOMAIN incs |->
        IF n = node \/ <<node, n>> \in edges THEN chosen ELSE incs[n]]

\* Dependents::bump, line 96: the returned increment is stored
Store(incs, node, chosen) == [incs EXCEPT ![node] = chosen]

----------------------------------------------------------------------------
(* Propagation as a state machine: bump visits the nodes the traversal     *)
(* yields, and the decision function picks one of the options or fails.    *)

Graphs ==
    {es \in SUBSET {<<d, n>> \in Nodes \X Nodes : d # n} :
        Cardinality(es) <= MaxEdges}

Visited == {visits[k].node : k \in 1..Len(visits)}

DependentsInit ==
    /\ edges \in Graphs
    /\ current \in [Nodes -> IncrementOptions]
    /\ entry = current
    /\ visits = <<>>
    /\ phase = "bump"
    /\ ChangeIdle
    /\ ScopesIdle
    /\ ChangesetIdle
    /\ VersionIdle
    /\ WorkspaceIdle
    /\ RepositoryIdle
    /\ CreateIdle
    /\ MembersIdle

\* One turn of the loop: f returns Ok(chosen)
Visit(chosen) ==
    /\ phase = "bump"
    /\ TraverseNext(edges, Sources(entry), Visited) # 0
    /\ LET node == TraverseNext(edges, Sources(entry), Visited)
           options == Options(edges, current, node)
       IN  /\ chosen \in options
           /\ current' = Store(current, node, chosen)
           /\ visits' = Append(visits, [node |-> node,
                                        seen |-> current,
                                        options |-> SortedIncrements(options),
                                        chosen |-> chosen])
    /\ UNCHANGED <<edges, entry, phase, exceptDependents>>

\* One turn of the loop: f returns an error, which bump passes through
Decline ==
    /\ phase = "bump"
    /\ TraverseNext(edges, Sources(entry), Visited) # 0
    /\ phase' = "failed"
    /\ UNCHANGED <<edges, current, entry, visits, exceptDependents>>

\* bump returns only when every node of the graph was visited
ReturnWhenAllVisited ==
    /\ phase = "bump"
    /\ Visited = Nodes
    /\ phase' = "returned"
    /\ UNCHANGED <<edges, current, entry, visits, exceptDependents>>

\* The traversal is exhausted: bump returns Ok
Return ==
    /\ phase = "bump"
    /\ TraverseNext(edges, Sources(entry), Visited) = 0
    /\ phase' = "returned"
    /\ UNCHANGED <<edges, current, entry, visits, exceptDependents>>

DependentsNext ==
    \/ \E chosen \in IncrementOptions : Visit(chosen)
    \/ Decline
    \/ Return

SpecDependents == DependentsInit /\ [][DependentsNext]_vars

\* The graphs with increments that are unset or Minor: which nodes are
\* seeds is all the traversal takes from the increments
DependentsFairInit ==
    /\ edges \in Graphs
    /\ current \in [Nodes -> {"None", "Minor"}]
    /\ entry = current
    /\ visits = <<>>
    /\ phase = "bump"
    /\ ChangeIdle
    /\ ScopesIdle
    /\ ChangesetIdle
    /\ VersionIdle
    /\ WorkspaceIdle
    /\ RepositoryIdle
    /\ CreateIdle
    /\ MembersIdle

\* bump is a loop of one thread: a turn that can be taken is taken
SpecDependentsFair ==
    DependentsFairInit /\ [][DependentsNext]_vars /\ WF_vars(DependentsNext)

\* graph.sources(): the nodes without a dependency
GraphSources(es) == {n \in Nodes : Incoming(es, n) = {}}

\* Graph::traverse(initial) collected: the nodes in the order they are
\* yielded
RECURSIVE TraverseFrom(_, _, _)
TraverseFrom(es, initial, walked) ==
    LET done == {walked[k] : k \in 1..Len(walked)}
    IN  IF TraverseNext(es, initial, done) = 0 THEN walked
        ELSE TraverseFrom(es, initial,
                          Append(walked, TraverseNext(es, initial, done)))

\* IntoIterator for &Dependents: the packages in topological order
Listing(es) == TraverseFrom(es, GraphSources(es), <<>>)

----------------------------------------------------------------------------
(* Cargo manifests (toml_edit documents).  A table is a sequence of        *)
(* entries [key, item] in document order; an item is a string, a boolean,  *)
(* a table (a section, a dotted or an inline table), or something else.    *)
(* Keys and strings are sequences of characters.                           *)

PACKAGE == <<"p", "a", "c", "k", "a", "g", "e">>

NAME == <<"n", "a", "m", "e">>

VERSION == <<"v", "e", "r", "s", "i", "o", "n">>

WORKSPACE == <<"w", "o", "r", "k", "s", "p", "a", "c", "e">>

MEMBERS == <<"m", "e", "m", "b", "e", "r", "s">>

DEPENDENCIES == <<"d", "e", "p", "e", "n", "d", "e", "n", "c", "i", "e", "s">>

DEV_DEPENDENCIES == <<"d", "e", "v", "-">> \o DEPENDENCIES

PATH == <<"p", "a", "t", "h">>

Str(s) == [kind |-> "str", str |-> s]

Bool(b) == [kind |-> "bool", bool |-> b]

Table(entries) == [kind |-> "table", entries |-> entries]

Array == [kind |-> "array"]

Entry(key, item) == [key |-> key, item |-> item]

\* u64 as a decimal string
RECURSIVE Decimal(_)
Decimal(n) ==
    LET digit == <<"0", "1", "2", "3", "4", "5", "6", "7", "8", "9">>
    IN  IF n < 10 THEN <<digit[n + 1]>>
        ELSE Decimal(n \div 10) \o <<digit[(n % 10) + 1]>>

\* Version::to_string
VersionFmt(v) ==
    Decimal(v.major) \o <<".">> \o Decimal(v.minor) \o <<".">>
    \o Decimal(v.patch)
    \o (IF v.pre # "" THEN <<"-", v.pre>> ELSE <<>>)
    \o (IF v.build # "" THEN <<"+", v.build>> ELSE <<>>)

\* TableLike::get: the position of the entry with the key, 0 without one
IndexOf(entries, key) ==
    LET hits == {i \in 1..Len(entries) : entries[i].key = key}
    IN  IF hits = {} THEN 0 ELSE Min(hits)

\* TableLike::insert: the item of the key is replaced, a new key is added
\* at the end
Insert(entries, key, item) ==
    IF IndexOf(entries, key) = 0 THEN Append(entries, Entry(key, item))
    ELSE [entries EXCEPT ![IndexOf(entries, key)].item = item]

\* Item::as_table_like
IsTableLike(item) == item.kind = "table"

\* Versions<Cargo>::update_dependency
update_dependency(item, v) ==
    IF /\ IsTableLike(item)
       /\ IndexOf(item.entries, WORKSPACE) # 0
       /\ item.entries[IndexOf(item.entries, WORKSPACE)].item = Bool(TRUE)
    THEN item
    ELSE IF item.kind = "str" THEN Str(VersionFmt(v))
    ELSE IF IsTableLike(item)
    THEN Table(Insert(item.entries, VERSION, Str(VersionFmt(v))))
    ELSE item

\* for (name, item) in table.iter_mut(): the entries named in the version
\* set are updated
UpdateTable(entries, vs) ==
    [i \in 1..Len(entries) |->
        IF entries[i].key \in DOMAIN vs
        THEN Entry(entries[i].key,
                   update_dependency(entries[i].item, vs[entries[i].key]))
        ELSE entries[i]]

\* Versions<Cargo>::update_package_version
update_package_version(doc, vs) ==
    LET p == IndexOf(doc, PACKAGE)
    IN  IF p = 0 \/ ~IsTableLike(doc[p].item) THEN doc
        ELSE LET package == doc[p].item.entries
                 n == IndexOf(package, NAME)
             IN  IF n = 0 \/ package[n].item.kind # "str" THEN doc
                 ELSE IF package[n].item.str \notin DOMAIN vs THEN doc
                 ELSE [doc EXCEPT ![p].item =
                          Table(Insert(package, VERSION,
                              Str(VersionFmt(vs[package[n].item.str]))))]

\* Versions<Cargo>::update_workspace_dependencies
update_workspace_dependencies(doc, vs) ==
    LET w == IndexOf(doc, WORKSPACE)
    IN  IF w = 0 \/ ~IsTableLike(doc[w].item) THEN doc
        ELSE LET workspace == doc[w].item.entries
                 d == IndexOf(workspace, DEPENDENCIES)
             IN  IF d = 0 \/ ~IsTableLike(workspace[d].item) THEN doc
                 ELSE [doc EXCEPT ![w].item =
                          Table([workspace EXCEPT ![d].item =
                              Table(UpdateTable(workspace[d].item.entries,
                                                vs))])]

\* Versions<Cargo>::update_dependencies, for one of its two sections
UpdateSection(doc, section, vs) ==
    LET d == IndexOf(doc, section)
    IN  IF d = 0 \/ ~IsTableLike(doc[d].item) THEN doc
        ELSE [doc EXCEPT ![d].item = Table(UpdateTable(doc[d].item.entries, vs))]

\* Versions<Cargo>::update_dependencies
update_dependencies(doc, vs) ==
    UpdateSection(UpdateSection(doc, DEPENDENCIES, vs), DEV_DEPENDENCIES, vs)

\* Versions<Cargo>::update, on a document that parses
update(doc, vs) ==
    update_dependencies(
        update_workspace_dependencies(update_package_version(doc, vs), vs),
        vs)

----------------------------------------------------------------------------
(* Workspace::bump as a state machine: the version set is computed, the    *)
(* manifests of the projects are rewritten one after the other, and the    *)
(* workspace is synchronized.                                              *)

\* The forms of a dependency on the package b
DependencyItems ==
    { Str(<<"1", ".", "0", ".", "0">>),
      Table(<< Entry(VERSION, Str(<<"1", ".", "0", ".", "0">>)),
               Entry(PATH, Str(<<".", ".", "/", "b">>)) >>),
      Table(<< Entry(PATH, Str(<<".", ".", "/", "b">>)) >>),
      Table(<< Entry(WORKSPACE, Bool(TRUE)) >>),
      Table(<< Entry(WORKSPACE, Bool(FALSE)),
               Entry(VERSION, Str(<<"1", ".", "0", ".", "0">>)) >>),
      Array }

\* The manifest of the workspace root
RootManifest(dependency) ==
    << Entry(WORKSPACE, Table(<<
           Entry(MEMBERS, Array),
           Entry(DEPENDENCIES, Table(<<
               Entry(<<"b">>, dependency),
               Entry(<<"x">>, Str(<<"1", ".", "0", ".", "0">>)) >>)) >>)) >>

\* The manifest of a package with the given dependencies
PackageManifest(name, v, dependencies, dev) ==
    << Entry(PACKAGE, Table(<<
           Entry(NAME, Str(name)),
           Entry(VERSION, Str(VersionFmt(v))),
           Entry(PATH, Str(<<"x">>)) >>)),
       Entry(DEPENDENCIES, Table(dependencies)),
       Entry(DEV_DEPENDENCIES, Table(dev)) >>

\* A project with its manifest file: name and version are <<>> for a
\* manifest without a package
ProjectFile(name, v, doc) ==
    [name |-> name, version |-> v, original |-> doc, content |-> doc,
     status |-> "untouched"]

PackageVersions ==
    { [major |-> 1, minor |-> 0, patch |-> 0, pre |-> "", build |-> ""],
      [major |-> 0, minor |-> U64_MAX, patch |-> 1, pre |-> "rc1",
       build |-> ""] }

\* Workspace { projects }: the projects ordered by path, which are the
\* root, the package a that depends on b, and the package b
ProjectFiles ==
    { << ProjectFile(<<>>, <<>>, RootManifest(shared)),
         ProjectFile(<<"a">>, va,
             PackageManifest(<<"a">>, va,
                 << Entry(<<"b">>, dependency),
                    Entry(<<"x">>, Table(<< Entry(VERSION,
                        Str(<<"1", ".", "0", ".", "0">>)) >>)) >>,
                 << Entry(<<"b">>, dependency) >>)),
         ProjectFile(<<"b">>, vb,
             PackageManifest(<<"b">>, vb,
                 << Entry(<<"x">>, Str(<<"1", ".", "0", ".", "0">>)) >>,
                 <<>>)) >> :
        shared \in { Str(<<"1", ".", "0", ".", "0">>),
                     Table(<< Entry(PATH, Str(<<".", ".", "/", "b">>)) >>) },
        dependency \in DependencyItems,
        va \in PackageVersions, vb \in PackageVersions }

\* Workspace { packages }: the projects with a name, ordered by name
PackagesOf(files) ==
    LET Named(file) == file.name # <<>>
    IN  SelectSeq(files, Named)

Running == [state |-> "Running", err |-> "", at |-> ""]

Returned(state, err, at) == [state |-> state, err |-> err, at |-> at]

WorkspaceInit ==
    /\ manifests \in ProjectFiles
    /\ requested \in [1..2 -> IncrementOptions]
    /\ versions = <<>>
    /\ position = 0
    /\ syncs = 0
    /\ returned = Returned("Ready", "", "")
    /\ ChangeIdle
    /\ ScopesIdle
    /\ ChangesetIdle
    /\ VersionIdle
    /\ DependentsIdle
    /\ RepositoryIdle
    /\ CreateIdle
    /\ MembersIdle

\* Workspace::bump, the first loop: the version set
Compute ==
    /\ returned.state = "Ready"
    /\ LET packages == PackagesOf(manifests)
           bumped == {i \in 1..Len(packages) : requested[i] # "None"}
       IN  versions' =
               [name \in {packages[i].name : i \in bumped} |->
                   LET i == CHOOSE j \in bumped : packages[j].name = name
                   IN  bump(packages[i].version, requested[i])]
    /\ returned' = Running
    /\ UNCHANGED <<manifests, requested, position, syncs, exceptWorkspace>>

\* Workspace::bump, the second loop: the manifest of the next project is
\* read, updated and written
Rewrite ==
    /\ returned = Running
    /\ position < Len(manifests)
    /\ manifests' =
           [manifests EXCEPT
               ![position + 1].content =
                   update(manifests[position + 1].content, versions),
               ![position + 1].status = "written"]
    /\ position' = position + 1
    /\ UNCHANGED <<requested, versions, syncs, returned, exceptWorkspace>>

\* Workspace::bump, the second loop: fs::read_to_string, T::update or
\* fs::write returns an error, which the ? operator returns from bump
RewriteFailed(err, at) ==
    /\ returned = Running
    /\ position < Len(manifests)
    /\ manifests' = [manifests EXCEPT ![position + 1].status = at]
    /\ returned' = Returned("Err", err, at)
    /\ UNCHANGED <<requested, versions, position, syncs, exceptWorkspace>>

\* T::sync called while the loop is still running
SyncAnytime(err) ==
    /\ returned = Running
    /\ syncs' = syncs + 1
    /\ returned' = IF err = "" THEN Returned("Ok", "", "")
                   ELSE Returned("Err", err, "sync")
    /\ UNCHANGED <<manifests, requested, versions, position, exceptWorkspace>>

\* Workspace::bump, after the loop: T::sync, whose result bump returns
Sync(err) ==
    /\ returned = Running
    /\ position = Len(manifests)
    /\ syncs' = syncs + 1
    /\ returned' = IF err = "" THEN Returned("Ok", "", "")
                   ELSE Returned("Err", err, "sync")
    /\ UNCHANGED <<manifests, requested, versions, position, exceptWorkspace>>

\* The errors of an iteration: reading, updating and writing a manifest
RewriteErrors ==
    { <<"Io", "read">>, <<"TomlEdit", "update">>, <<"Io", "write">> }

\* The results of Cargo::sync: the command ran, could not be run, or
\* exited with a failure
SyncErrors == {"", "Io", "Status"}

WorkspaceNext ==
    \/ Compute
    \/ Rewrite
    \/ \E e \in RewriteErrors : RewriteFailed(e[1], e[2])
    \/ \E err \in SyncErrors : Sync(err)

SpecWorkspace == WorkspaceInit /\ [][WorkspaceNext]_vars

----------------------------------------------------------------------------
(* Repository: commits are numbered from 1, parents[c] is the set of the   *)
(* parents of the commit c, tip is the commit of HEAD (0 in a repository   *)
(* without commits), and tags maps versions to commits.                    *)

\* Maximum number of commits of a repository
MaxHistory == 4

CommitIds == 1..MaxHistory

\* The versions of the tags, and those asked for
TagVersions ==
    { [major |-> 1, minor |-> 0, patch |-> 0, pre |-> "rc1", build |-> ""],
      [major |-> 1, minor |-> 0, patch |-> 0, pre |-> "", build |-> ""],
      [major |-> 1, minor |-> 1, patch |-> 0, pre |-> "", build |-> ""] }

\* Ord for Version, the order of the keys of tags: the numbers, then a
\* version with a pre-release before the one without
VersionLess(a, b) ==
    \/ a.major < b.major
    \/ a.major = b.major /\ a.minor < b.minor
    \/ a.major = b.major /\ a.minor = b.minor /\ a.patch < b.patch
    \/ /\ a.major = b.major /\ a.minor = b.minor /\ a.patch = b.patch
       /\ a.pre # "" /\ b.pre = ""

\* The keys of a BTreeMap in ascending order
RECURSIVE SortedVersions(_)
SortedVersions(vs) ==
    IF vs = {} THEN <<>>
    ELSE LET least == CHOOSE v \in vs :
                         \A w \in vs \ {v} : VersionLess(v, w)
         IN  <<least>> \o SortedVersions(vs \ {least})

\* tags.range(..version): the versions before the given one
TagsRangeExclusive(ts, v) ==
    LET Before(w) == VersionLess(w, v)
    IN  SelectSeq(SortedVersions(DOMAIN ts), Before)

\* tags.range(..=version): the versions up to the given one
TagsRange(ts, v) ==
    LET UpTo(w) == w = v \/ VersionLess(w, v)
    IN  SelectSeq(SortedVersions(DOMAIN ts), UpTo)

\* Iterator::rev
Rev(seq) == [i \in 1..Len(seq) |-> seq[Len(seq) + 1 - i]]

\* The commits reachable from a commit, itself included
RECURSIVE AncestorsOf(_, _)
AncestorsOf(ps, c) == {c} \cup UNION {AncestorsOf(ps, p) : p \in ps[c]}

\* git2 revwalk with Sort::TOPOLOGICAL, pushed at a commit: the commits
\* reachable from it, each before its parents
Revwalks(ps, from) ==
    LET reachable == AncestorsOf(ps, from)
        n == Cardinality(reachable)
    IN  { walk \in [1..n -> reachable] :
            /\ \A i, j \in 1..n : i # j => walk[i] # walk[j]
            /\ \A i, j \in 1..n : walk[j] \in ps[walk[i]] => i < j }

\* Commits::next until it returns None: the ids of the walk up to the end
\* of the range, which is 0 for a range without an end
RECURSIVE TakeUntil(_, _)
TakeUntil(walk, until) ==
    IF walk = <<>> \/ Head(walk) = until THEN <<>>
    ELSE <<Head(walk)>> \o TakeUntil(Tail(walk), until)

\* Repository::commits, the iterator consumed: from is 0 for a range that
\* starts at HEAD; push_head fails in a repository without commits
RepositoryCommits(ps, head, from, until, walk) ==
    IF from = 0 /\ head = 0 THEN Err("Git")
    ELSE [ok |-> TRUE, value |-> TakeUntil(walk, until)]

\* The commit a walk of Repository::commits is pushed at
Pushed(head, from) == IF from = 0 THEN head ELSE from

\* Versions::commits: the bounds <<start, end>> of the range handed to
\* Repository::commits, 0 for a bound left open
VersionsCommits(ts, option) ==
    IF option.some
    THEN IF option.version \notin DOMAIN ts THEN Err("Version")
         ELSE LET iter == Rev(TagsRange(ts, option.version))
              IN  IF Len(iter) >= 2
                  THEN [ok |-> TRUE, value |-> <<ts[iter[1]], ts[iter[2]]>>]
                  ELSE IF Len(iter) = 1
                  THEN [ok |-> TRUE, value |-> <<ts[iter[1]], 0>>]
                  ELSE Err("Version")
    ELSE LET iter == Rev(SortedVersions(DOMAIN ts))
         IN  IF Len(iter) >= 1
             THEN [ok |-> TRUE, value |-> <<0, ts[iter[1]]>>]
             ELSE [ok |-> TRUE, value |-> <<0, 0>>]

----------------------------------------------------------------------------
(* Versions::commits as a state machine: a repository with tags is         *)
(* opened, and the commits of a version are asked for.                     *)

\* The histories of the repositories: a line of commits, a branch merged
\* by the last commit, and a branch that HEAD does not reach
Histories ==
    { [c \in CommitIds |-> IF c = 1 THEN {} ELSE {c - 1}],
      [c \in CommitIds |->
          IF c = 1 THEN {}
          ELSE IF c = MaxHistory THEN {c - 1, c - 2}
          ELSE IF c = MaxHistory - 1 THEN {c - 2} \ {0}
          ELSE {c - 1}] }

NoVersion == [some |-> FALSE]

SomeVersion(v) == [some |-> TRUE, version |-> v]

RepositoryInit ==
    /\ parents \in Histories
    /\ tip \in {0} \cup {c \in CommitIds : c >= MaxHistory - 1}
    /\ tags \in UNION { [vs -> CommitIds] : vs \in SUBSET TagVersions }
    /\ (tip = 0 => tags = <<>>)
    /\ asked = <<>>
    /\ yielded = Pending
    /\ ChangeIdle
    /\ ScopesIdle
    /\ ChangesetIdle
    /\ VersionIdle
    /\ DependentsIdle
    /\ WorkspaceIdle
    /\ CreateIdle
    /\ MembersIdle

\* versions.commits(option) returns an error
CommitsFailed(option) ==
    /\ asked = <<>>
    /\ LET range == VersionsCommits(tags, option)
       IN  IF ~range.ok THEN yielded' = range
           ELSE /\ Pushed(tip, range.value[1]) = 0
                /\ yielded' = RepositoryCommits(parents, tip, range.value[1],
                                                range.value[2], <<>>)
    /\ asked' = <<option>>
    /\ UNCHANGED <<parents, tip, tags, exceptRepository>>

\* versions.commits(option) returns an iterator, which is consumed
CommitsYielded(option) ==
    /\ asked = <<>>
    /\ LET range == VersionsCommits(tags, option)
       IN  /\ range.ok
           /\ Pushed(tip, range.value[1]) # 0
           /\ \E walk \in Revwalks(parents, Pushed(tip, range.value[1])) :
                 yielded' = RepositoryCommits(parents, tip, range.value[1],
                                              range.value[2], walk)
    /\ asked' = <<option>>
    /\ UNCHANGED <<parents, tip, tags, exceptRepository>>

AskedVersions == {NoVersion} \cup {SomeVersion(v) : v \in TagVersions}

RepositoryNext ==
    \/ \E option \in AskedVersions : CommitsFailed(option)
    \/ \E option \in AskedVersions : CommitsYielded(option)

SpecRepository == RepositoryInit /\ [][RepositoryNext]_vars

----------------------------------------------------------------------------
(* Properties of Change: increments, round trip, references *)

\* The summary part of a line: what follows the first ": "
SummaryOf(v) == Slice(v, Find(v, <<":", " ">>) + 2, Len(v))

\* The pairs <<i, j>> such that s[i..j] reads "(#<digits>)"
WrappedPairs(s) ==
    {ij \in (1..Len(s)) \X (1..Len(s)) :
        /\ ij[2] >= ij[1] + 3
        /\ s[ij[1]] = "("
        /\ s[ij[1] + 1] = "#"
        /\ s[ij[2]] = ")"
        /\ \A k \in (ij[1] + 2)..(ij[2] - 1) : IsNumeric(s[k])}

\* The numbers of the references "(#N)" of s
WrappedRefs(s) ==
    {ParseU32(SubSeq(s, ij[1] + 2, ij[2] - 1)) : ij \in WrappedPairs(s)}

\* The last digit of the run of digits that starts at s[i]
DigitsEnd(s, i) ==
    Max({j \in i..Len(s) : \A k \in i..j : IsNumeric(s[k])})

\* s has a "#" followed by digits that is not wrapped as "(#N)"
HasBareReference(s) ==
    \E i \in 1..Len(s) :
        /\ s[i] = "#"
        /\ i < Len(s)
        /\ IsNumeric(s[i + 1])
        /\ ~(/\ i > 1
             /\ s[i - 1] = "("
             /\ DigitsEnd(s, i + 1) < Len(s)
             /\ s[DigitsEnd(s, i + 1) + 1] = ")")

\* The increment the specification's table gives for a kind and the
\* breaking flag
IncrementTable(kind, is_breaking) ==
    IF kind \in {"Build", "Docs", "Style", "Test", "Chore"} THEN "None"
    ELSE IF is_breaking THEN "Major"
    ELSE IF kind = "Feature" THEN "Minor"
    ELSE "Patch"

\* C7: for every parsed change, as_increment is Major for a breaking
\* Feature, Fix, Performance or Refactor, Minor for a non-breaking Feature,
\* Patch for a non-breaking Fix, Performance or Refactor, and none for
\* Build, Docs, Style, Test and Chore, breaking or not.
C7_AsIncrementTable ==
    (stage # "line" /\ change.ok) =>
        /\ change.kind \in Kinds
        /\ as_increment(change)
              = IncrementTable(change.kind, change.is_breaking)

\* A breaking change of a kind without an increment was parsed
C7_Witness ==
    /\ stage = "parsed"
    /\ change.ok
    /\ change.kind = "Docs"
    /\ change.is_breaking
    /\ as_increment(change) = "None"

\* C8: whenever a line parses into a change, the Display form of the
\* change parses again, into an equal change.
C8_RoundTrip ==
    stage = "reparsed" => reparsed = change

\* C9: when a summary with references "(#N)" parses, no "(#N)" is left in
\* the stored summary, the stored references are the referenced numbers in
\* ascending order, and the stored summary has no leading or trailing
\* whitespace; "feature: support (#12) and (#4)" gives "support and" with
\* the references 4 and 12.
C9_ReferencesExtracted ==
    (/\ stage # "line"
     /\ change.ok
     /\ WrappedPairs(SummaryOf(value)) # {}) =>
        /\ WrappedPairs(change.summary) = {}
        /\ change.references = SortedSeq(WrappedRefs(SummaryOf(value)))
        /\ change.summary = Trim(change.summary)
        /\ (value = <<"f", "e", "a", "t", "u", "r", "e", ":", " ", "s", "u",
                      "p", "p", "o", "r", "t", " ", "(", "#", "1", "2", ")",
                      " ", "a", "n", "d", " ", "(", "#", "4", ")">>
            => /\ change.summary
                    = <<"s", "u", "p", "p", "o", "r", "t", " ", "a", "n", "d">>
               /\ change.references = <<4, 12>>)

\* C10: a line that breaks no other rule and whose summary has a "#N" not
\* wrapped in parentheses gives the Reference error, wherever the "#N" is.
C10_BareReferenceRejected ==
    (/\ stage # "line"
     /\ (change.ok \/ change.err = "Reference")
     /\ HasBareReference(SummaryOf(value))) =>
        change = Err("Reference")

----------------------------------------------------------------------------
(* Properties of Change: the errors of from_str *)

\* The line made of a type token, a separator and the summary "summary"
SummaryLine(token, separator) ==
    token \o separator \o <<"s", "u", "m", "m", "a", "r", "y">>

\* C11 as stated: "fix:summary", "fix : summary" and "fix summary" give
\* the Format error, "feat: summary" gives the Kind error.
C11_FormatThriceKindOnce ==
    stage # "line" =>
        /\ value = SummaryLine(<<"f", "i", "x">>, <<":">>)
              => change = Err("Format")
        /\ value = SummaryLine(<<"f", "i", "x", " ">>, <<":", " ">>)
              => change = Err("Format")
        /\ value = SummaryLine(<<"f", "i", "x">>, <<" ">>)
              => change = Err("Format")
        /\ value = SummaryLine(<<"f", "e", "a", "t">>, <<":", " ">>)
              => change = Err("Kind")

\* C11, amended: "fix:summary" and "fix summary" give the Format error;
\* "fix : summary" and "feat: summary" give the Kind error.
C11_FormatTwiceKindTwice ==
    stage # "line" =>
        /\ value = SummaryLine(<<"f", "i", "x">>, <<":">>)
              => change = Err("Format")
        /\ value = SummaryLine(<<"f", "i", "x", " ">>, <<":", " ">>)
              => change = Err("Kind")
        /\ value = SummaryLine(<<"f", "i", "x">>, <<" ">>)
              => change = Err("Format")
        /\ value = SummaryLine(<<"f", "e", "a", "t">>, <<":", " ">>)
              => change = Err("Kind")

\* "feat: summary" was parsed
C11_Witness ==
    /\ stage = "parsed"
    /\ value = SummaryLine(<<"f", "e", "a", "t">>, <<":", " ">>)
    /\ change = Err("Kind")

\* C12: from_str returns a change or one of the six parse errors for every
\* line, lines with characters outside ASCII included; it never aborts.
C12_FromStrTotal ==
    stage # "line" => (change.ok \/ change.err \in ParseErrors)

\* The type token of a line: what precedes the first ": ", up to a "!"
TypeToken(v) ==
    LET token == Slice(v, 0, Find(v, <<":", " ">>))
    IN  IF Find(token, <<"!">>) >= 0
        THEN Slice(token, 0, Find(token, <<"!">>))
        ELSE token

\* The nine keywords, as Display writes the kinds
Keywords == {KindFmt(kind) : kind \in Kinds}

\* C19: a line whose type and summary are not separated by a colon and
\* exactly one space gives the Format error: a line without ": ", and a
\* line with a keyword, ": " and one more space.
C19_FormatOnBadSeparator ==
    (/\ stage # "line"
     /\ \/ Find(value, <<":", " ">>) < 0
        \/ /\ TypeToken(value) \in Keywords
           /\ Len(value) >= Find(value, <<":", " ">>) + 3
           /\ value[Find(value, <<":", " ">>) + 3] = " ") =>
        change = Err("Format")

\* C20: a line with ": " whose type token, up to a "!", is not one of the
\* nine keywords gives the Kind error; so do " fix: summary",
\* "fix : summary", "fxi: summary", "feat: summary" and "FEATURE: a".
C20_KindOnUnknownToken ==
    (/\ stage # "line"
     /\ Find(value, <<":", " ">>) >= 0
     /\ TypeToken(value) \notin Keywords) =>
        change = Err("Kind")

\* " fix: summary", with a space before the keyword, was parsed
C20_Witness ==
    /\ stage = "parsed"
    /\ value = SummaryLine(<<" ", "f", "i", "x">>, <<":", " ">>)
    /\ TypeToken(value) \notin Keywords
    /\ change = Err("Kind")

----------------------------------------------------------------------------
(* Properties of the scope set *)

\* The scope path q is a prefix of the path p, by components
IsPrefix(q, p) == Len(q) <= Len(p) /\ SubSeq(p, 1, Len(q)) = q

\* The indices of the scopes whose path is a prefix of the path p
PrefixScopes(p) == {i \in 1..Len(paths) : IsPrefix(paths[i].path, p)}

\* C5: Scopes::get of a file path gives the scope with the most components
\* among the scopes whose directory is a prefix of the path, and none when
\* there is no such scope; with the scopes (crates, root), (crates/mono,
\* mono), crates/mono/src/lib.rs gives mono and crates/other/x gives root.
\* A file path is not itself the directory of a scope.
C5_DeepestPrefix ==
    (/\ lookup # <<>>
     /\ \A i \in 1..Len(paths) : paths[i].path # lookup[1].path) =>
        /\ PrefixScopes(lookup[1].path) = {} => lookup[1].index = 0
        /\ PrefixScopes(lookup[1].path) # {} =>
              /\ lookup[1].index \in PrefixScopes(lookup[1].path)
              /\ \A i \in PrefixScopes(lookup[1].path) :
                    Len(paths[i].path) <= Len(paths[lookup[1].index].path)
        /\ (/\ Len(paths) = 2
            /\ paths[1] = [path |-> <<"crates">>, name |-> "root"]
            /\ paths[2] = [path |-> <<"crates", "mono">>, name |-> "mono"]) =>
              /\ lookup[1].path = <<"crates", "mono", "src", "lib.rs">>
                    => lookup[1].index = 2
              /\ lookup[1].path = <<"crates", "other", "x">>
                    => lookup[1].index = 1

\* The example of the specification: the file below crates/mono resolves
\* to the scope added second, although the scope added first matches too
C5_Witness ==
    /\ Len(paths) = 2
    /\ paths[1] = [path |-> <<"crates">>, name |-> "root"]
    /\ paths[2] = [path |-> <<"crates", "mono">>, name |-> "mono"]
    /\ lookup = <<[path |-> <<"crates", "mono", "src", "lib.rs">>,
                   index |-> 2]>>

----------------------------------------------------------------------------
(* Properties of the changeset *)

\* The calls of add so far whose commit was accepted and has a delta path
\* that resolves to the scope i
AcceptedTouching(i) ==
    {k \in 1..Len(calls) :
        /\ from_str(calls[k].commit.summary).ok
        /\ calls[k].commit.deltas.ok
        /\ \E d \in 1..Len(calls[k].commit.deltas.paths) :
              ScopesGet(scopes.paths, scopes.globs,
                        calls[k].commit.deltas.paths[d]) = i}

\* C1: after any sequence of add calls on a fresh changeset, the increment
\* of each scope is the maximum (unset < Patch < Minor < Major) of
\* as_increment over the accepted commits with a delta path resolving to
\* the scope, and unset when there is no such commit.
C1_IncrementIsMaximum ==
    \A i \in 1..Len(increments) :
        IncrementRank(increments[i]) =
            Max({0} \cup
                {IncrementRank(
                    as_increment(from_str(calls[k].commit.summary))) :
                        k \in AcceptedTouching(i)})

\* A breaking change, then a fix of the same scope: the scope keeps Major,
\* the other scope stays unset
C1_Witness ==
    /\ Len(calls) = 2
    /\ Len(revisions) = 2
    /\ revisions[1].scopes = <<2>>
    /\ revisions[2].scopes = <<2>>
    /\ as_increment(revisions[1].change) = "Major"
    /\ as_increment(revisions[2].change) = "Patch"
    /\ increments = <<"None", "Major">>

\* C6: add on a commit whose summary does not parse returns Ok and leaves
\* the revisions and the increments as they are, whatever the deltas and
\* the body of the commit; on a commit whose summary parses, add appends
\* a revision for the commit or returns an error.
C6_OnlyUnparsableDropped ==
    [][Len(calls') = Len(calls) + 1 =>
        LET call == calls'[Len(calls')]
        IN  IF /\ ~from_str(call.commit.summary).ok
               /\ from_str(call.commit.summary).err \in ParseErrors
            THEN /\ call.result = "Ok"
                 /\ revisions' = revisions
                 /\ increments' = increments
            ELSE \/ call.result # "Ok"
                 \/ /\ Len(revisions') = Len(revisions) + 1
                    /\ revisions'[Len(revisions')].commit = call.commit]_vars

\* A commit with a bare reference in the summary, deltas that can't be
\* retrieved and a body was added after a fix: add returned Ok, and the
\* increments are the ones of the fix
C6_Witness ==
    /\ Len(calls) = 2
    /\ calls[2].result = "Ok"
    /\ from_str(calls[2].commit.summary) = Err("Reference")
    /\ ~calls[2].commit.deltas.ok
    /\ calls[2].commit.body # <<>>
    /\ Len(revisions) = 1
    /\ \E i \in 1..Len(increments) : increments[i] = "Patch"

\* The body without its trailers: what precedes the last paragraph when
\* that paragraph is made of trailer lines
WithoutTrailers(body) ==
    IF FirstTrailerKey(body) = <<>> THEN body
    ELSE Slice(body, 0, Len(TrimEnd(body)) - Len(LastParagraph(body)))

\* C17: summary gives the body of the commit of the revision added first,
\* without its trailers and trimmed; it gives the Summary error when there
\* is no revision, when that commit has no body and when the trimmed text
\* is empty; revisions added later do not change what it gives.
C17_SummaryOfFirstRevision ==
    /\ revisions = <<>> => summary(revisions) = Err("Summary")
    /\ revisions # <<>> =>
          /\ summary(revisions) = summary(<<revisions[1]>>)
          /\ summary(revisions) =
                IF \/ revisions[1].commit.body = <<>>
                   \/ Trim(WithoutTrailers(revisions[1].commit.body)) = <<>>
                THEN Err("Summary")
                ELSE [ok |-> TRUE,
                      value |->
                         Trim(WithoutTrailers(revisions[1].commit.body))]

\* A call of add or extend accepted the commit: its summary parses and
\* its deltas were retrieved
Accepted(call) ==
    from_str(call.commit.summary).ok /\ call.commit.deltas.ok

\* The commits of a sequence of calls or of revisions
RECURSIVE CommitsOf(_)
CommitsOf(entries) ==
    IF entries = <<>> THEN <<>>
    ELSE <<Head(entries).commit>> \o CommitsOf(Tail(entries))

\* C18: after any sequence of add and extend calls on a new changeset the
\* increments have one slot per scope, the revisions are the accepted
\* commits in the order they were added, and no call changes the scopes.
C18_ShapeKept ==
    /\ [](/\ Len(increments) = Len(scopes.paths)
          /\ Len(scopes.globs) = Len(scopes.paths)
          /\ CommitsOf(revisions) = CommitsOf(SelectSeq(calls, Accepted)))
    /\ [][scopes' = scopes]_vars

\* Two different commits were accepted, the first one with two scopes
C18_Witness ==
    /\ Len(calls) = 2
    /\ Len(revisions) = 2
    /\ revisions[1].commit # revisions[2].commit
    /\ revisions[1].commit = calls[1].commit
    /\ Len(revisions[1].scopes) = 2
    /\ Len(increments) = 3

----------------------------------------------------------------------------
(* Properties of the changelog.                                            *)

\* The category the revision belongs to: Breaking when the breaking flag
\* is set, else the one of its kind, else none
SectionOf(revision) ==
    IF revision.change.is_breaking THEN "Breaking"
    ELSE CASE revision.change.kind = "Feature" -> "Feature"
           [] revision.change.kind = "Fix" -> "Fix"
           [] revision.change.kind = "Performance" -> "Performance"
           [] revision.change.kind = "Refactor" -> "Refactor"
           [] OTHER -> "None"

\* The revisions of the changeset that belong to the given category
RevisionsIn(category) ==
    LET In(revision) == SectionOf(revision) = category
    IN  SelectSeq(revisions, In)

\* The headings of the given categories, in order
RECURSIVE Headings(_)
Headings(k) ==
    IF k > Len(Categories) THEN <<>>
    ELSE (IF RevisionsIn(Categories[k]) # <<>>
          THEN <<[text |-> CategoryFmt(Categories[k])]>> ELSE <<>>)
         \o Headings(k + 1)

\* The short ids of the revisions, section after section
RECURSIVE Entries(_)
Entries(k) ==
    IF k > Len(Categories) THEN <<>>
    ELSE [i \in 1..Len(RevisionsIn(Categories[k])) |->
             [id |-> RevisionsIn(Categories[k])[i].commit]]
         \o Entries(k + 1)

IsHeading(piece) ==
    \E k \in 1..Len(Categories) : piece = [text |-> CategoryFmt(Categories[k])]

IsEntry(piece) == DOMAIN piece = {"id"}

----------------------------------------------------------------------------
(* Properties of the bump rules *)

\* n + 1, limited to the greatest u64
NextNumber(n) == IF n < U64_MAX THEN n + 1 ELSE U64_MAX

\* The table of the specification; plus(n) is what "+1" stands for
BumpTable(v, increment, plus(_)) ==
    LET numbers ==
            IF v.major = 0 /\ v.minor = 0
            THEN <<0, 0, plus(v.patch)>>
            ELSE IF v.major = 0 /\ increment \in {"Major", "Minor"}
            THEN <<0, plus(v.minor), 0>>
            ELSE IF v.major = 0
            THEN <<0, v.minor, plus(v.patch)>>
            ELSE IF increment = "Major"
            THEN <<plus(v.major), 0, 0>>
            ELSE IF increment = "Minor"
            THEN <<v.major, plus(v.minor), 0>>
            ELSE <<v.major, v.minor, plus(v.patch)>>
    IN  [major |-> numbers[1], minor |-> numbers[2], patch |-> numbers[3],
         pre |-> "", build |-> ""]

\* C4 as stated: bump follows the table with "+1" the successor, clears
\* pre-release and build metadata, and keeps 0.0.z below 0.1.0 and 0.y.z
\* below 1.0.0.
C4_BumpTable ==
    last # <<>> =>
        /\ version = BumpTable(last[1].from, last[1].increment,
                               LAMBDA n : n + 1)
        /\ last[1].from.major = 0 => version.major = 0
        /\ (last[1].from.major = 0 /\ last[1].from.minor = 0)
              => version.minor = 0

\* C4, amended: bump follows the table with "+1" the successor limited to
\* the greatest u64 (a number that is u64::MAX stays), clears pre-release
\* and build metadata, and keeps 0.0.z below 0.1.0 and 0.y.z below 1.0.0.
C4_BumpTableSaturating ==
    last # <<>> =>
        /\ version = BumpTable(last[1].from, last[1].increment, NextNumber)
        /\ last[1].from.major = 0 => version.major = 0
        /\ (last[1].from.major = 0 /\ last[1].from.minor = 0)
              => version.minor = 0

\* A 0.y.z version with pre-release and build metadata whose minor number
\* is the greatest u64 was bumped by Major: the minor number stays
C4_Witness ==
    /\ last = <<[from |-> [major |-> 0, minor |-> U64_MAX, patch |-> 2,
                           pre |-> "rc1", build |-> "abc"],
                 increment |-> "Major"]>>
    /\ version = [major |-> 0, minor |-> U64_MAX, patch |-> 0,
                  pre |-> "", build |-> ""]

----------------------------------------------------------------------------
(* Properties of the increment propagation *)

\* The nodes bump starts from: those with an increment on entry
Seeds == {n \in Nodes : entry[n] # "None"}

\* The nodes the node n depends on, directly or not
Upstream(es, n) ==
    {d \in Nodes : n \in Reachable(es, {m \in Nodes : <<d, m>> \in es})}

\* No node that can be reached from the seeds lies on a cycle
AcyclicFromSeeds ==
    \A n \in Reachable(edges, Seeds) : n \notin Upstream(edges, n)

\* The greatest of the options a visit offered
Greatest(options) == options[Len(options)]

\* C2 as stated, on graphs without a cycle: after bump returned Ok, for
\* every edge from a dependency to a node the increment of the node is at
\* least the increment of the dependency, whatever the decisions were.
C2_EdgesOrdered ==
    (phase = "returned" /\ AcyclicFromSeeds) =>
        \A e \in edges :
            IncrementRank(current[e[2]]) >= IncrementRank(current[e[1]])

\* C2, amended: after bump returned Ok, for every edge from a dependency
\* to a node the increment of the node is at least the increment of the
\* dependency if the node can't be reached from a node with an increment,
\* or if the node was visited and the decision for it was the greatest of
\* the options offered.
C2_EdgesOrderedWhenGreatestChosen ==
    phase = "returned" =>
        \A e \in edges :
            (\/ e[2] \notin Reachable(edges, Seeds)
             \/ \E k \in 1..Len(visits) :
                   /\ visits[k].node = e[2]
                   /\ visits[k].chosen = Greatest(visits[k].options))
            => IncrementRank(current[e[2]]) >= IncrementRank(current[e[1]])

\* A node without an increment was offered the increment of a dependency
\* and took it
C2_Witness ==
    /\ phase = "returned"
    /\ \E k \in 1..Len(visits) :
          /\ entry[visits[k].node] = "None"
          /\ Len(visits[k].options) = 2
          /\ visits[k].chosen = Greatest(visits[k].options)
          /\ current[visits[k].node] = "Major"

\* C3: when no node reachable from the seeds lies on a cycle, the
\* traversal visits the nodes reachable from the seeds, each once and all
\* of them by the time bump returns, a node never before a reachable
\* dependency of it; and the increments of the upstream dependencies of a
\* node, as they are when the decision for the node is made, are the final
\* ones.
C3_TopologicalVisits ==
    AcyclicFromSeeds =>
        /\ \A j, k \in 1..Len(visits) :
              j # k => visits[j].node # visits[k].node
        /\ Visited \subseteq Reachable(edges, Seeds)
        /\ phase = "returned" => Visited = Reachable(edges, Seeds)
        /\ \A k \in 1..Len(visits) :
              \A d \in Incoming(edges, visits[k].node)
                          \cap Reachable(edges, Seeds) :
                 \E j \in 1..(k - 1) : visits[j].node = d
        /\ \A k \in 1..Len(visits) :
              \A d \in Upstream(edges, visits[k].node) :
                 visits[k].seen[d] = current[d]

\* Node 2 depends on node 3, both depend on node 1, the only seed: the
\* visits are 1, 3, 2, and node 2 saw the final increment of node 3
C3_Witness ==
    /\ phase = "returned"
    /\ edges = {<<1, 2>>, <<1, 3>>, <<3, 2>>}
    /\ Seeds = {1}
    /\ Len(visits) = 3
    /\ visits[1].node = 1
    /\ visits[2].node = 3
    /\ visits[3].node = 2
    /\ visits[3].seen[3] = current[3]
    /\ current[3] # entry[3]

----------------------------------------------------------------------------
(* Properties of Workspace::bump and of the rewrite of a manifest.         *)

\* A manifest whose iteration of the loop returned an error
Failed(file) == file.status \in {"read", "update", "write"}

\* C14: sync is called at most once, and only when the manifest of every
\* project has been read, updated and written; when reading, updating or
\* writing a manifest fails, bump returns that error, and sync is not
\* called, then or later.
C14_SyncAfterAllManifests ==
    /\ [](/\ syncs <= 1
          /\ syncs = 1 =>
                \A i \in 1..Len(manifests) :
                    /\ manifests[i].status = "written"
                    /\ manifests[i].content =
                           update(manifests[i].original, versions)
          /\ \A i \in 1..Len(manifests) :
                Failed(manifests[i]) =>
                    /\ syncs = 0
                    /\ returned.state = "Err"
                    /\ returned.at = manifests[i].status
                    /\ returned.err =
                           (IF returned.at = "update" THEN "TomlEdit"
                            ELSE "Io"))
    /\ [][syncs' # syncs =>
             /\ position = Len(manifests)
             /\ \A i \in 1..Len(manifests) : manifests[i].status = "written"]_vars

\* bump returned Ok after sync, and a manifest was changed
C14_Witness ==
    /\ syncs = 1
    /\ returned.state = "Ok"
    /\ \E i \in 1..Len(manifests) :
          manifests[i].content # manifests[i].original

\* The keys of a document, each with the keys of the tables it is in
RECURSIVE PathsOf(_)
PathsOf(entries) ==
    UNION { {<<entries[i].key>>}
            \cup (IF IsTableLike(entries[i].item)
                  THEN {<<entries[i].key>> \o path :
                           path \in PathsOf(entries[i].item.entries)}
                  ELSE {}) : i \in 1..Len(entries) }

\* The item a path of the document leads to
RECURSIVE ItemAt(_, _)
ItemAt(entries, path) ==
    LET item == entries[IndexOf(entries, Head(path))].item
    IN  IF Len(path) = 1 THEN item ELSE ItemAt(item.entries, Tail(path))

\* The keys of a table, in document order
KeysOf(item) == [i \in 1..Len(item.entries) |-> item.entries[i].key]

\* A dependency entry that inherits from the workspace
CarriesWorkspace(item) ==
    /\ IsTableLike(item)
    /\ \E i \in 1..Len(item.entries) :
          item.entries[i] = Entry(WORKSPACE, Bool(TRUE))

\* The version literals the rewrite is to change: [package].version of a
\* bumped package, and the version of a dependency named as a bumped
\* package in the three dependency sections
VersionLiterals(doc, vs) ==
    { path \in PathsOf(doc) :
        \/ /\ path = <<PACKAGE, VERSION>>
           /\ <<PACKAGE, NAME>> \in PathsOf(doc)
           /\ ItemAt(doc, <<PACKAGE, NAME>>).kind = "str"
           /\ ItemAt(doc, <<PACKAGE, NAME>>).str \in DOMAIN vs
        \/ \E section \in { <<WORKSPACE, DEPENDENCIES>>, <<DEPENDENCIES>>,
                            <<DEV_DEPENDENCIES>> } :
              \E name \in DOMAIN vs :
                  /\ path \in { section \o <<name>>,
                                section \o <<name, VERSION>> }
                  /\ ~CarriesWorkspace(ItemAt(doc, section \o <<name>>)) }

\* C15: a rewritten manifest has the keys of the original, in the order of
\* the original, and an item that is not a table is the one of the
\* original, unless it is the version literal of a bumped package or of a
\* dependency on one, in which case it is a string again; a dependency
\* that carries workspace = true is the one of the original.
C15_OnlyVersionLiterals ==
    \A i \in 1..Len(manifests) :
        manifests[i].status = "written" =>
            LET before == manifests[i].original
                after == manifests[i].content
            IN  /\ PathsOf(after) = PathsOf(before)
                /\ \A path \in PathsOf(before) \cap PathsOf(after) :
                      LET old == ItemAt(before, path)
                          new == ItemAt(after, path)
                      IN  /\ CarriesWorkspace(old) => new = old
                          /\ IF IsTableLike(old)
                             THEN /\ IsTableLike(new)
                                  /\ KeysOf(new) = KeysOf(old)
                             ELSE \/ new = old
                                  \/ /\ path \in VersionLiterals(before,
                                                                 versions)
                                     /\ old.kind = "str"
                                     /\ new.kind = "str"

----------------------------------------------------------------------------
(* Properties of Versions::commits.                                        *)

\* The tagged versions strictly less than the given one
Lower(v) == {w \in DOMAIN tags : VersionLess(w, v)}

\* The greatest of a set of versions
Top(vs) == CHOOSE v \in vs : \A w \in vs \ {v} : VersionLess(w, v)

\* The commits of a sequence
Elements(seq) == {seq[i] : i \in 1..Len(seq)}

\* The sequence is a walk that starts at the commit from and stops before
\* the commit until, or at the end of the history when until is 0
IsRange(seq, from, until) ==
    /\ \E walk \in Revwalks(parents, from) :
          \E n \in 0..Len(walk) :
              /\ seq = SubSeq(walk, 1, n)
              /\ n < Len(walk) => walk[n + 1] = until
    /\ until \notin Elements(seq)
    /\ from # until => seq # <<>> /\ seq[1] = from
    /\ until = 0 => Elements(seq) = AncestorsOf(parents, from)
    /\ until # 0 /\ until \in AncestorsOf(parents, from) =>
          Elements(seq) \subseteq
              AncestorsOf(parents, from) \ AncestorsOf(parents, until)

\* C16: commits(Some(v)) for a tagged v yields the commits from the commit
\* of v on, stopping before the commit of the greatest tag less than v, or
\* all of them when v is the lowest tag; commits(None) yields the commits
\* from HEAD on, stopping before the commit of the greatest tag, or all of
\* them without tags; commits(Some(v)) for a v without a tag returns the
\* error Version.
C16_CommitsOfVersion ==
    asked # <<>> =>
        IF asked[1].some
        THEN IF asked[1].version \notin DOMAIN tags
             THEN yielded = Err("Version")
             ELSE /\ yielded.ok
                  /\ IsRange(yielded.value, tags[asked[1].version],
                         IF Lower(asked[1].version) = {} THEN 0
                         ELSE tags[Top(Lower(asked[1].version))])
        ELSE tip # 0 =>
                /\ yielded.ok
                /\ IsRange(yielded.value, tip,
                       IF DOMAIN tags = {} THEN 0
                       ELSE tags[Top(DOMAIN tags)])

\* The commits of a version with a lower tag on one of its ancestors: some
\* commits are yielded, and the walk stopped before the history ended
C16_Witness ==
    /\ asked # <<>>
    /\ asked[1].some
    /\ asked[1].version \in DOMAIN tags
    /\ Lower(asked[1].version) # {}
    /\ yielded.ok
    /\ Len(yielded.value) = 2
    /\ Cardinality(AncestorsOf(parents, tags[asked[1].version])) = MaxHistory

----------------------------------------------------------------------------
(* Properties of the traversal of graphs with cycles.                      *)

\* A dependency cycle among the nodes reachable from the seeds
CycleFromSeeds ==
    \E n \in Reachable(edges, Sources(entry)) :
        n \in Reachable(edges, {m \in Nodes : <<n, m>> \in edges})

----------------------------------------------------------------------------
(* Properties of the options offered by Dependents::bump.                  *)

\* The increments a node is to be offered: its own, and those of its
\* direct dependencies that are greater
Offered(incs, node) ==
    {incs[node]} \cup
    {i \in IncrementOptions :
        /\ IncrementRank(i) > IncrementRank(incs[node])
        /\ \E d \in Nodes : <<d, node>> \in edges /\ incs[d] = i}

\* The increments as they are after the k-th visit
After(k) == IF k < Len(visits) THEN visits[k + 1].seen ELSE current

\* The chain A -> B -> C with the increments Minor, unset, unset
Chain ==
    /\ edges = {<<1, 2>>, <<2, 3>>}
    /\ entry = [n \in Nodes |-> IF n = 1 THEN "Minor" ELSE "None"]

\* C24: at every visit the options are the node's increment and the
\* greater increments of its direct dependencies, each once, in ascending
\* order with unset first, and the chosen one is written to the slot of the
\* node and to no other; on the chain A -> B -> C with Minor, unset, unset
\* B and, once B is Minor, C are offered unset and Minor, and choosing the
\* highest option everywhere ends with Minor, Minor, Minor.
C24_OptionsOffered ==
    /\ \A k \in 1..Len(visits) :
          LET visit == visits[k]
          IN  /\ {visit.options[j] : j \in 1..Len(visit.options)}
                     = Offered(visit.seen, visit.node)
              /\ \A j \in 1..(Len(visit.options) - 1) :
                    IncrementRank(visit.options[j])
                        < IncrementRank(visit.options[j + 1])
              /\ After(k)[visit.node] = visit.chosen
              /\ \A n \in Nodes \ {visit.node} : After(k)[n] = visit.seen[n]
    /\ (visits = <<>> => current = entry)
    /\ (visits # <<>> => visits[1].seen = entry)
    /\ Chain =>
          /\ \A k \in 1..Len(visits) :
                /\ visits[k].node = 2 => visits[k].options = <<"None", "Minor">>
                /\ visits[k].node = 3 /\ visits[k].seen[2] = "Minor" =>
                      visits[k].options = <<"None", "Minor">>
          /\ (/\ phase = "returned"
              /\ \A k \in 1..Len(visits) :
                    visits[k].chosen = Greatest(visits[k].options)) =>
                current = [n \in Nodes |-> "Minor"]

\* The chain was walked with the highest option chosen at B and C
C24_Witness ==
    /\ Chain
    /\ phase = "returned"
    /\ Len(visits) = 3
    /\ visits[2].node = 2 /\ visits[2].chosen = "Minor"
    /\ visits[3].node = 3 /\ visits[3].chosen = "Minor"
    /\ current = [n \in Nodes |-> "Minor"]

----------------------------------------------------------------------------
(* Properties of the scope set builder.                                    *)

\* C26: after any sequence of adds the registered scopes have different
\* paths, none of them absolute, and, a failed add registering nothing,
\* the glob at an index is the pattern of the scope at that index.
C26_ScopesRegistered ==
    /\ \A i, j \in 1..Len(paths) : i # j => paths[i].path # paths[j].path
    /\ \A i \in 1..Len(paths) : is_relative(paths[i].path)
    /\ Len(globs) = Len(paths)
    /\ \A i \in 1..Len(paths) :
          i <= Len(globs) => globs[i] = JoinGlob(paths[i].path)

----------------------------------------------------------------------------
(* Properties of the changelog as a filter of the changeset.               *)

\* The kinds a release is made for
RelevantKinds == {"Feature", "Fix", "Performance", "Refactor"}

\* C27: the changelog is empty exactly when the changeset has no feature,
\* fix, performance or refactor change: every revision it lists has one of
\* these four kinds and every revision of such a kind is listed.
C27_ChangelogRelevant ==
    LET sections == to_changelog(revisions, scopes)
        relevant == {revisions[i] : i \in {j \in 1..Len(revisions) :
                        revisions[j].change.kind \in RelevantKinds}}
    IN  /\ UNION {{sections[category][i].revision :
                      i \in 1..Len(sections[category])} :
                  category \in DOMAIN sections} = relevant
        /\ (DOMAIN sections = {} <=> relevant = {})
        /\ (ChangelogFmt(sections) = <<>> <=> relevant = {})

----------------------------------------------------------------------------
(* The version-create command: Arguments::execute.  A workspace is a set   *)
(* of projects [path, name, version, dependencies]; the name of a project  *)
(* without a package (a virtual workspace root) is "None".                 *)

\* The names of packages and of their directories, in ascending order
Letters == <<"a", "b", "c">>

\* A dependency that is no package of the workspace
External == "serde"

MaxDependencies == 3

\* Ord for the names and for the last component of the paths
LetterRank(l) == CHOOSE i \in 1..Len(Letters) : Letters[i] = l

\* Ord for PathBuf: the root directory, then crates/<letter>
PathRank(path) == IF path = <<>> THEN 0 ELSE LetterRank(path[Len(path)])

\* The version of the package with the given name
VersionOf(name) ==
    [major |-> IF name = "a" THEN 1 ELSE 0,
     minor |-> IF name = "b" THEN 1 ELSE 0,
     patch |-> IF name = "c" THEN 1 ELSE 0,
     pre |-> "", build |-> ""]

\* The workspaces: three packages, each in a directory of its own, named
\* by any assignment of the names to the directories, with dependencies
\* on other packages and on an external crate, below an optional root
\* project without a package
CreateWorkspaces ==
    LET layouts ==
            {f \in [1..Len(Letters) -> 1..Len(Letters)] :
                \A i, j \in DOMAIN f : f[i] = f[j] => i = j}
        wanted ==
            {D \in SUBSET {<<Letters[p], d>> :
                              p \in 1..Len(Letters),
                              d \in {Letters[k] : k \in 1..Len(Letters)}
                                    \cup {External}} :
                /\ Cardinality(D) <= MaxDependencies
                /\ \A pair \in D : pair[1] # pair[2]}
        package(f, D, k) ==
            [path |-> <<"crates", Letters[k]>>,
             name |-> Letters[f[k]],
             version |-> VersionOf(Letters[f[k]]),
             dependencies |-> {pair[2] : pair \in
                                 {q \in D : q[1] = Letters[f[k]]}}]
        root == [path |-> <<>>, name |-> "None",
                 version |-> VersionOf("None"), dependencies |-> {}]
    IN  {{package(f, D, k) : k \in 1..Len(Letters)} \cup extra :
            f \in layouts, D \in wanted, extra \in {{}, {root}}}

\* Workspace.projects, a BTreeMap: the projects in the order of the paths
RECURSIVE WorkspaceProjects(_)
WorkspaceProjects(ms) ==
    IF ms = {} THEN <<>>
    ELSE LET first == CHOOSE m \in ms :
                         \A o \in ms : PathRank(m.path) <= PathRank(o.path)
         IN  <<first>> \o WorkspaceProjects(ms \ {first})

\* Workspace.packages, a BTreeMap: (name, path) of the projects that have
\* a name, in the order of the names
RECURSIVE WorkspacePackages(_)
WorkspacePackages(ms) ==
    LET named == {m \in ms : m.name # "None"}
    IN  IF named = {} THEN <<>>
        ELSE LET first == CHOOSE m \in named :
                             \A o \in named :
                                LetterRank(m.name) <= LetterRank(o.name)
             IN  <<[name |-> first.name, path |-> first.path]>>
                 \o WorkspacePackages(ms \ {first})

\* Changeset::new: a scope for each package, in the order of
\* Workspace::packages
ChangesetScopes(ms) == WorkspacePackages(ms)

\* Workspace::dependents: the nodes, the projects with a name in the order
\* of Workspace.projects
DependentsNodes(ms) ==
    LET named(m) == m.name # "None"
    IN  SelectSeq(WorkspaceProjects(ms), named)

\* The edges collected with the dependency for the dependent's node
DependentsEdgesInverted(ms) ==
    LET nodes == DependentsNodes(ms)
    IN  {<<n, m>> \in (1..Len(nodes)) \X (1..Len(nodes)) :
            \E name \in nodes[n].dependencies : nodes[m].name = name}

\* Workspace::dependents: the edges, from the node of a dependency that
\* Workspace::get resolves to the node of the project that declares it
DependentsEdges(ms) ==
    LET nodes == DependentsNodes(ms)
    IN  {<<m, n>> \in (1..Len(nodes)) \X (1..Len(nodes)) :
            \E name \in nodes[n].dependencies : nodes[m].name = name}

\* graph.sinks(): the nodes without a dependent
GraphSinks(es) == {n \in Nodes : \A m \in Nodes : <<n, m>> \notin es}

\* Workspace::bump, lines 82-90: the version set computed for the
\* increments, a function on the names of the packages with an increment
BumpVersions(ms, incs) ==
    LET packages == WorkspacePackages(ms)
        bumped == {k \in 1..Len(packages) : incs[k] # "None"}
    IN  [name \in {packages[k].name : k \in bumped} |->
            LET k == CHOOSE j \in bumped : packages[j].name = name
            IN  bump(VersionOf(name), incs[k])]

\* format!("release/v{version}")
ReleaseBranch(v) ==
    <<"r", "e", "l", "e", "a", "s", "e", "/", "v">> \o VersionFmt(v)

\* The first line with the summary capitalised
ReleaseSummaryCapital(v) ==
    <<"c", "h", "o", "r", "e", ":", " ",
      "R", "e", "l", "e", "a", "s", "e", " ", "v">> \o VersionFmt(v)

\* format!("chore: release v{version}"), the first line of the message
ReleaseSummary(v) ==
    <<"c", "h", "o", "r", "e", ":", " ",
      "r", "e", "l", "e", "a", "s", "e", " ", "v">> \o VersionFmt(v)

\* The version of the sink, bumped when the sink has an increment
ReleaseVersion(ms, es, incs) ==
    LET sink == Min(GraphSinks(es))
        version_ == DependentsNodes(ms)[sink].version
    IN  IF incs[sink] # "None" THEN bump(version_, incs[sink]) ELSE version_

\* The answers of is_clean, on_default_branch and confirm
Answers == BOOLEAN

\* What the user writes as the summary of the release: the prompt exits
\* the process on an empty message
ReleaseNotes ==
    {<<"n", "o", "t", "e", "s">>, <<"s", "e", "e", " ", "#", "7", "\n">>}

CreateInit ==
    /\ members \in CreateWorkspaces
    /\ environment \in [clean : Answers, default : Answers, confirm : Answers]
    /\ step = "changeset"
    /\ effects = <<>>
    /\ exit = "running"
    /\ edges = {}
    /\ current = <<>>
    /\ entry = <<>>
    /\ visits = <<>>
    /\ phase = "idle"
    /\ ChangeIdle
    /\ ScopesIdle
    /\ ChangesetIdle
    /\ VersionIdle
    /\ WorkspaceIdle
    /\ RepositoryIdle
    /\ MembersIdle

\* A statement with the ? operator returns its error
Fail ==
    /\ step \in {"changeset", "clean", "default", "confirm", "dependents",
                 "sink", "branch", "workspace", "message", "add", "commit"}
    /\ step' = "done"
    /\ exit' = "Err"
    /\ UNCHANGED <<members, environment, effects, dependentsVars,
                   exceptCreate>>

\* Lines 66-78: the increments of the changeset, one for each scope; the
\* command returns when none is set
Changes(incs) ==
    /\ step = "changeset"
    /\ current' = incs
    /\ IF \A k \in DOMAIN incs : incs[k] = "None"
       THEN step' = "done" /\ exit' = "Ok"
       ELSE step' = "clean" /\ UNCHANGED exit
    /\ UNCHANGED <<members, environment, effects, edges, entry, visits,
                   phase, exceptCreate>>

\* A question whose answer is not looked at
AskAnyway(at, answer, next) ==
    /\ step = at
    /\ step' = next
    /\ UNCHANGED <<members, environment, effects, exit, dependentsVars,
                   exceptCreate>>

\* Lines 80-99: a question with the given answer; the command goes on
\* when it is true and returns when it is false
Ask(at, answer, next) ==
    /\ step = at
    /\ IF answer THEN step' = next /\ UNCHANGED exit
       ELSE step' = "done" /\ exit' = "Ok"
    /\ UNCHANGED <<members, environment, effects, dependentsVars,
                   exceptCreate>>

IsClean == Ask("clean", environment.clean, "default")

OnDefaultBranch == Ask("default", environment.default, "confirm")

Confirm == Ask("confirm", environment.confirm, "dependents")

\* Lines 103-104: the graph is built and Dependents::bump is entered
BuildDependents ==
    /\ step = "dependents"
    /\ edges' = DependentsEdges(members)
    /\ entry' = current
    /\ visits' = <<>>
    /\ phase' = "bump"
    /\ step' = "bump"
    /\ UNCHANGED <<members, environment, effects, exit, current,
                   exceptCreate>>

\* Line 125: Dependents::bump has returned, with Ok or with the error of
\* the prompt
Bumped ==
    /\ step = "bump"
    /\ phase \in {"returned", "failed"}
    /\ IF phase = "returned" THEN step' = "sink" /\ UNCHANGED exit
       ELSE step' = "done" /\ exit' = "Err"
    /\ UNCHANGED <<members, environment, effects, dependentsVars,
                   exceptCreate>>

\* Lines 130-134: the first sink, without which the command returns
Sink ==
    /\ step = "sink"
    /\ IF GraphSinks(edges) = {}
       THEN step' = "done" /\ exit' = "Ok"
       ELSE step' = "branch" /\ UNCHANGED exit
    /\ UNCHANGED <<members, environment, effects, dependentsVars,
                   exceptCreate>>

\* Line 145, Repository::branch: the branch is created, then HEAD is set
\* and checked out; switched is whether the second part succeeded
Branch(switched) ==
    /\ step = "branch"
    /\ LET name == ReleaseBranch(ReleaseVersion(members, edges, current))
       IN  effects' = effects \o <<[op |-> "branch", name |-> name]>>
                      \o (IF switched
                          THEN <<[op |-> "switch", name |-> name]>>
                          ELSE <<>>)
    /\ IF switched THEN step' = "workspace" /\ UNCHANGED exit
       ELSE step' = "done" /\ exit' = "Err"
    /\ UNCHANGED <<members, environment, dependentsVars, exceptCreate>>

\* Line 146, Workspace::bump: the manifests are rewritten with the version
\* set of the increments and synced; complete is whether it returned Ok
BumpWorkspace(complete) ==
    /\ step = "workspace"
    /\ effects' = Append(effects, [op |-> "bump",
                                   versions |-> BumpVersions(members, current),
                                   complete |-> complete])
    /\ IF complete THEN step' = "message" /\ UNCHANGED exit
       ELSE step' = "done" /\ exit' = "Err"
    /\ UNCHANGED <<members, environment, dependentsVars, exceptCreate>>

\* Lines 149-154: the message is prompted for (an editor that fails or an
\* empty message exits the process), the files are staged and the commit
\* is made
Message ==
    /\ step = "message"
    /\ step' = "add"
    /\ UNCHANGED <<members, environment, effects, exit, dependentsVars,
                   exceptCreate>>

Stage ==
    /\ step = "add"
    /\ effects' = Append(effects, [op |-> "add"])
    /\ step' = "commit"
    /\ UNCHANGED <<members, environment, exit, dependentsVars, exceptCreate>>

Commit(notes) ==
    /\ step = "commit"
    /\ effects' =
          Append(effects,
                 [op |-> "commit",
                  message |->
                      ReleaseSummary(ReleaseVersion(members, edges, current))
                      \o <<"\n", "\n">> \o notes])
    /\ step' = "done"
    /\ exit' = "Ok"
    /\ UNCHANGED <<members, environment, dependentsVars, exceptCreate>>

CreateNext ==
    \/ Fail
    \/ \E incs \in [Nodes -> {"None", "Minor"}] : Changes(incs)
    \/ IsClean
    \/ OnDefaultBranch
    \/ Confirm
    \/ BuildDependents
    \/ \E chosen \in IncrementOptions : Visit(chosen)
    \/ Decline
    \/ Return
    \/ Bumped
    \/ Sink
    \/ \E switched \in BOOLEAN : Branch(switched)
    \/ \E complete \in BOOLEAN : BumpWorkspace(complete)
    \/ Message
    \/ Stage
    \/ \E notes \in ReleaseNotes : Commit(notes)

SpecCreate == CreateInit /\ [][CreateNext]_vars

----------------------------------------------------------------------------
(* Properties of the version-create command.                               *)

\* C23: one index denotes one package: scope i of the changeset (increment
\* slot i), node i of the graph of Workspace::dependents and the i-th
\* package of Workspace::bump are the same package; so the versions that
\* Workspace::bump computes are those of the packages whose node has an
\* increment when Dependents::bump has returned.
C23_OneIndexOnePackage ==
    LET nodes == DependentsNodes(members)
        packages == WorkspacePackages(members)
    IN  /\ phase # "idle" =>
              /\ Len(ChangesetScopes(members)) = Len(nodes)
              /\ Len(packages) = Len(nodes)
              /\ \A i \in 1..Len(nodes) :
                    /\ ChangesetScopes(members)[i].name = nodes[i].name
                    /\ ChangesetScopes(members)[i].path = nodes[i].path
                    /\ packages[i].name = nodes[i].name
        /\ \A k \in 1..Len(effects) :
              effects[k].op = "bump" =>
                 DOMAIN effects[k].versions =
                    {nodes[i].name : i \in {j \in 1..Len(nodes) :
                                              current[j] # "None"}}

\* C25: the graph has one node for each project with a name and none for a
\* project without; there is an edge from d to p exactly when p declares a
\* dependency with the name of the workspace package d, so a dependency
\* that is no workspace package has no edge, and an edge from p to d
\* exists only when d declares p.
C25_DependentsGraph ==
    phase # "idle" =>
       LET nodes == DependentsNodes(members)
           named == {m \in members : m.name # "None"}
       IN  /\ Len(nodes) = Cardinality(named)
           /\ {nodes[i] : i \in 1..Len(nodes)} = named
           /\ edges \subseteq (1..Len(nodes)) \X (1..Len(nodes))
           /\ \A d, p \in 1..Len(nodes) :
                 <<d, p>> \in edges
                    <=> \E m \in named :
                           /\ m.name = nodes[d].name
                           /\ m.name \in nodes[p].dependencies

\* The graph of a workspace with a root without a package, where c
\* declares a and an external crate, and nothing declares c
C25_Witness ==
    /\ phase # "idle"
    /\ \E m \in members : m.name = "None"
    /\ \E d, p \in 1..Len(DependentsNodes(members)) :
          /\ DependentsNodes(members)[d].name = "a"
          /\ DependentsNodes(members)[p].name = "c"
          /\ DependentsNodes(members)[p].dependencies = {"a", External}
          /\ edges = {<<d, p>>}

\* C28: the mutations happen in the order branch, switch, Workspace::bump,
\* stage, commit, each at most once, and none of them happens unless the
\* changeset has an increment, the working tree is clean, HEAD is on the
\* default branch and the user confirmed; without an increment the
\* command returns Ok.
C28_MutationsInOrder ==
    LET order == <<"branch", "switch", "bump", "add", "commit">>
    IN  /\ Len(effects) <= Len(order)
        /\ \A k \in 1..Len(effects) :
              k <= Len(order) => effects[k].op = order[k]
        /\ effects # <<>> =>
              /\ entry # <<>>
              /\ \E n \in DOMAIN entry : entry[n] # "None"
              /\ environment.clean
              /\ environment.default
              /\ environment.confirm
        /\ (/\ current # <<>>
            /\ phase = "idle"
            /\ \A n \in DOMAIN current : current[n] = "None")
           => step = "done" /\ exit = "Ok" /\ effects = <<>>
        /\ (step = "done" /\ exit = "Ok" /\ phase = "idle")
           => \/ \A n \in DOMAIN current : current[n] = "None"
              \/ ~environment.clean
              \/ ~environment.default
              \/ ~environment.confirm

\* A release that went through: the command returned Ok after the five
\* mutations
C28_Witness ==
    /\ step = "done"
    /\ exit = "Ok"
    /\ Len(effects) = 5
    /\ effects[5].op = "commit"

\* The release commit as the repository hands it to a changeset: the
\* first line, the body after the empty line, and the manifests of the
\* packages as deltas
ReleaseCommit(message) ==
    LET packages == WorkspacePackages(members)
    IN  [summary |-> Slice(message, 0, Find(message, <<"\n">>)),
         body |-> Slice(message, Find(message, <<"\n">>) + 2, Len(message)),
         deltas |-> Deltas([i \in 1..Len(packages) |->
                              packages[i].path \o <<"Cargo.toml">>])]

----------------------------------------------------------------------------
(* Members: the iterator over the member projects of a project.  A path    *)
(* is a sequence of components below the root of the workspace, a pattern  *)
(* is a path whose components may be "*".                                  *)

MaxPatterns == 3

\* The directories with a manifest, in the order glob yields paths
Directories ==
    << <<"crates", "a">>, <<"crates", "a", "sub", "s">>, <<"crates", "b">>,
       <<"tools", "t">> >>

\* The directory whose manifest can name members of its own
Nested == <<"crates", "a">>

\* glob(pattern), filtered by is_dir: the directories the pattern matches
GlobDirs(pattern) ==
    LET matches(dir) ==
            /\ Len(dir) = Len(pattern)
            /\ \A k \in 1..Len(dir) :
                  pattern[k] = "*" \/ pattern[k] = dir[k]
    IN  SelectSeq(Directories, matches)

\* Iterator::rev collected
Reversed(s) == [k \in 1..Len(s) |-> s[Len(s) + 1 - k]]

\* Project::members: the path iterator over the patterns of the manifest
\* in the directory, joined with the directory and reversed
ProjectMembers(dir, patterns) ==
    [patterns |-> Reversed([k \in 1..Len(patterns) |-> dir \o patterns[k]]),
     paths |-> <<>>]

\* Manifest::members of the manifest in the directory
ManifestMembers(manifests_, dir) ==
    IF dir = <<>> THEN manifests_.root
    ELSE IF dir = Nested THEN manifests_.nested
    ELSE <<>>

\* Paths::next: with no paths left the next pattern is popped and
\* expanded, then the next path is popped; item is <<path>>, or <<>> for
\* None
PathsNext(iter) ==
    LET filled ==
            IF iter.paths # <<>> THEN iter
            ELSE IF iter.patterns = <<>> THEN iter
            ELSE [patterns |->
                     SubSeq(iter.patterns, 1, Len(iter.patterns) - 1),
                  paths |->
                     Reversed(GlobDirs(iter.patterns[Len(iter.patterns)]))]
    IN  IF filled.paths = <<>> THEN [iter |-> filled, item |-> <<>>]
        ELSE [iter |-> [filled EXCEPT !.paths = SubSeq(@, 1, Len(@) - 1)],
              item |-> <<filled.paths[Len(filled.paths)]>>]

\* Members::next: an exhausted path iterator is popped from the stack and
\* the next one is asked; the path iterator of a project read is pushed
RECURSIVE MembersNext(_, _)
MembersNext(manifests_, stack) ==
    IF stack = <<>> THEN [stack |-> stack, item |-> <<>>]
    ELSE LET drawn == PathsNext(stack[Len(stack)])
             below == SubSeq(stack, 1, Len(stack) - 1)
         IN  IF drawn.item = <<>> THEN MembersNext(manifests_, below)
             ELSE [stack |->
                      below \o <<drawn.iter>>
                      \o <<ProjectMembers(drawn.item[1],
                              ManifestMembers(manifests_, drawn.item[1]))>>,
                   item |-> drawn.item]

\* The member patterns of a root manifest: patterns that match several
\* directories, one directory and none, in any order
RootPatterns ==
    LET all == {<<"crates", "*">>, <<"tools", "*">>, <<"missing", "*">>}
    IN  {ps \in UNION {[1..n -> all] : n \in 0..MaxPatterns} :
            \A j, k \in DOMAIN ps : ps[j] = ps[k] => j = k}

\* The member patterns of the nested manifest
NestedPatterns ==
    {<<>>, << <<"sub", "*">> >>, << <<"none", "*">>, <<"sub", "*">> >>}

\* project.members() of the root project
MembersInit ==
    /\ disk \in [root : RootPatterns, nested : NestedPatterns]
    /\ pending = <<ProjectMembers(<<>>, disk.root)>>
    /\ found = <<>>
    /\ finished = FALSE
    /\ ChangeIdle
    /\ ScopesIdle
    /\ ChangesetIdle
    /\ VersionIdle
    /\ DependentsIdle
    /\ WorkspaceIdle
    /\ RepositoryIdle
    /\ CreateIdle

\* members.next() returns a project
NextMember ==
    /\ ~finished
    /\ MembersNext(disk, pending).item # <<>>
    /\ pending' = MembersNext(disk, pending).stack
    /\ found' = Append(found, MembersNext(disk, pending).item[1])
    /\ UNCHANGED <<disk, finished, exceptMembers>>

\* members.next() returns None
NoMember ==
    /\ ~finished
    /\ MembersNext(disk, pending).item = <<>>
    /\ pending' = MembersNext(disk, pending).stack
    /\ finished' = TRUE
    /\ UNCHANGED <<disk, found, exceptMembers>>

MembersSpecNext == NextMember \/ NoMember

SpecMembers == MembersInit /\ [][MembersSpecNext]_vars

----------------------------------------------------------------------------
(* Properties of the discovery of members.                                 *)

\* The directories the member patterns of the manifest in the directory
\* match
MatchedBy(dir) ==
    LET patterns == ManifestMembers(disk, dir)
    IN  UNION {{GlobDirs(dir \o patterns[k])[j] :
                   j \in 1..Len(GlobDirs(dir \o patterns[k]))} :
               k \in 1..Len(patterns)}

\* The directories matched from the directories S on, recursively
RECURSIVE Discovered(_)
Discovered(S) ==
    LET next == S \cup UNION {MatchedBy(dir) : dir \in S}
    IN  IF next = S THEN S ELSE Discovered(next)

\* C30: the members yielded are directories matched by a member pattern
\* of the root manifest or of the manifest of a member, none is yielded
\* twice, and when the iterator has returned None every such directory
\* was yielded, whatever the order of the patterns is and whether or not
\* a pattern matches no directory.
C30_DiscoveryComplete ==
    /\ \A j, k \in 1..Len(found) : found[j] = found[k] => j = k
    /\ {found[k] : k \in 1..Len(found)} \subseteq Discovered({<<>>}) \ {<<>>}
    /\ finished =>
          {found[k] : k \in 1..Len(found)} = Discovered({<<>>}) \ {<<>>}

====
